---- MODULE Spec2Model ----
(***************************************************************************)
(* Stream Agent II (v7.14 Standard fix12): the stream session controller   *)
(* of class App in                                                         *)
(*   src/stream_agent_II_webhud_doubletap_v7_14_STANDARD_fix12_configui_beta.py *)
(* Time is counted in ticks of 1/TPS second; every timestamp field of App  *)
(* (time.time() values) is a number of ticks.  A field that the code sets  *)
(* to None is 0 for preset numbers and NoDate for dates; the float 0.0 of  *)
(* an unset timestamp is 0.                                                *)
(***************************************************************************)
EXTENDS Integers, Sequences, FiniteSets, TLC

\* Resolution of time: ticks per second.  App.loop sleeps 0.25 s between
\* iterations and an iteration takes its own time, so loop iterations fall on
\* fractions of a second; the model lets them fall on every 1/TPS second.
TPS == 2

\* Ticks of a wall-clock day (now_in_cfg_tz): 86400 s.
DayTicks == 86400 * TPS

\* time.time() when the process of the main scenarios starts: day 1000, 12:00.
Epoch == 1000 * DayTicks + 12 * 3600 * TPS

\* Bounds of the scenarios (ticks of run time explored after the start).
HorizonMain == 24
\* Commands (HUD/WEB queue entries, MIDI messages) and changes of the world
\* (OBS going down or up, its stream going on or off) explored in one run.
MaxEvents == 3

NoDate == -1
Sources == {"MIDI", "HUD", "WEB"}
Presets == {1, 2}

VARIABLES
    cfg,                      \* self.cfg (Config), fixed during a run
    now,                      \* time.time() / now_in_cfg_tz(), in ticks
    phase,                    \* position in App.loop: "drain" | "midi"
    events,                   \* commands and world changes still allowed in this run
    started_at,               \* self.start_time
    cmd_queue,                \* self._cmd_queue: commands put by the HUD, not yet drained
    ui_pc,                    \* the Tk thread: "idle", or inside a handler it called itself
    se_pc,                    \* the run_service_end_sequence task: "idle" (none, or
                              \* created and not yet run) | "wait" | "cooldown"
    se_deadline,              \* its local deadline (end of the wait for OBS to stop)
    se_wake,                  \* when its asyncio.sleep returns
    \* --- App fields ---
    cam_state, cam_ready_at, queued_preset,
    pending_preset, pending_preset_due, pending_preset_delay_s,
    pending_stream_start, pending_start_not_before,
    stop_pending, stop_at, last_stop_was_midi, service_end_running,
    timer_done_today_date, timer_done_status,
    last_start_request_ts, start_grace_until,
    desired_streaming, ever_requested_stream, stop_intent, stop_intent_set_at,
    recovering, recover_attempts, recover_next_at, recover_hold_until,
    was_streaming, last_obs_err, last_critical_msg,
    \* --- ObsController ---
    obs_connected,            \* self.obs.connected
    \* --- the world outside the process ---
    obs_up,                   \* OBS answers websocket requests
    obs_streaming,            \* OBS stream output active
    obs_recording,            \* OBS record output active
    obs_profile_ok,           \* OBS current profile = OBS_EXPECTED_PROFILE_NAME
    timer_file,               \* contents of TIMER_STATE_FILE
    \* --- history (read by the properties only) ---
    h_last_accept,            \* when _start_stream_flow last passed its debounce check
    h_last_req,               \* the last accepted request: "none" | "start" | "stop"
    h_pending_why,            \* why the start is pending: "" | "camera" | "offline" |
                              \* "failed" | "switch"
    h_replaced,               \* the delayed preset last replaced by another one and
                              \* not requested again since (0: none)
    h_restarted,              \* the process has been launched again in this run
    h_run,                    \* recovery start calls since the last request, observed
                              \* live status or recovery pause
    out                       \* outward calls and log lines of the last step

vars == <<cfg, now, phase, events, started_at, cmd_queue, ui_pc,
          se_pc, se_deadline, se_wake,
          cam_state, cam_ready_at, queued_preset,
          pending_preset, pending_preset_due, pending_preset_delay_s,
          pending_stream_start, pending_start_not_before,
          stop_pending, stop_at, last_stop_was_midi, service_end_running,
          timer_done_today_date, timer_done_status,
          last_start_request_ts, start_grace_until,
          desired_streaming, ever_requested_stream, stop_intent, stop_intent_set_at,
          recovering, recover_attempts, recover_next_at, recover_hold_until,
          was_streaming, last_obs_err, last_critical_msg,
          obs_connected, obs_up, obs_streaming, obs_recording, obs_profile_ok,
          timer_file, h_last_accept, h_last_req, h_pending_why, h_replaced, h_restarted, h_run, out>>

(***************************************************************************)
(* Arithmetic helpers                                                      *)
(***************************************************************************)
Max(a, b) == IF a >= b THEN a ELSE b
Min(a, b) == IF a <= b THEN a ELSE b

\* seconds -> ticks
Sec(x) == x * TPS

\* Python int(x) of a float x = n / TPS seconds: truncation toward zero.
IntSeconds(n) == IF n >= 0 THEN n \div TPS ELSE 0 - ((0 - n) \div TPS)

RECURSIVE Pow(_, _)
Pow(b, e) == IF e <= 0 THEN 1 ELSE b * Pow(b, e - 1)

(***************************************************************************)
(* Configuration: class Config (defaults) and the scaled scenarios.        *)
(* Durations are in seconds as in the source; TIMER_START_HHMM is the pair *)
(* <<hh, mm>>; AUTO_RECOVER_BACKOFF_MULTIPLIER 2.0 is the integer 2.       *)
(***************************************************************************)
DefaultCfg ==
    [ HOME_TEST_MODE |-> FALSE,
      AUTO_RECOVER_ENABLED |-> TRUE,
      AUTO_RECOVER_MAX_ATTEMPTS |-> 3,
      AUTO_RECOVER_BASE_DELAY_SECONDS |-> 10,
      AUTO_RECOVER_BACKOFF_MULTIPLIER |-> 2,
      AUTO_RECOVER_COOLDOWN_SECONDS |-> 300,
      AUTO_RECOVER_START_GRACE_SECONDS |-> 30,
      OBS_PROFILE_CHECK_ENABLED |-> TRUE,
      OBS_PROFILE_MISMATCH_ACTION |-> "switch",
      OBS_PROFILE_SWITCH_GRACE_SECONDS |-> 2,
      AUTO_RECONNECT_OBS |-> TRUE,
      STOP_DELAY_SECONDS |-> 30,
      START_DEBOUNCE_SECONDS |-> 5,
      CAMERA_BOOT_SECONDS |-> 20,
      CAMERA_AUTO_WAKE_ON_PRESET |-> TRUE,
      ENABLE_PRESET_DELAYS |-> FALSE,
      PRESET_DELAYS_SECONDS |-> [p \in Presets |-> IF p = 1 THEN 10 ELSE 0],
      USE_TIMER_START |-> TRUE,
      TIMER_START_HHMM |-> <<9, 55>>,
      TIMER_WEEKDAY |-> 6,
      TIMER_PERSIST_STATE |-> TRUE,
      TIMER_FIRE_GRACE_MINUTES |-> 15,
      SERVICE_END_SEQUENCE_ENABLED |-> FALSE,
      MIDI_STOP_TRIGGERS_FULL_SEQUENCE |-> FALSE,
      SERVICE_END_POST_STOP_WAIT_SECONDS |-> 60,
      SERVICE_END_CLOSE_OBS |-> TRUE,
      SERVICE_END_WINDOWS_SHUTDOWN |-> FALSE ]

\* The main scenario: the default policy with every duration shortened, their
\* order kept (switch grace < debounce < camera boot < start grace = stop delay).
MainCfg ==
    [ DefaultCfg EXCEPT
        !.AUTO_RECOVER_MAX_ATTEMPTS = 2,
        !.AUTO_RECOVER_BASE_DELAY_SECONDS = 1,
        !.AUTO_RECOVER_COOLDOWN_SECONDS = 4,
        !.AUTO_RECOVER_START_GRACE_SECONDS = 3,
        !.OBS_PROFILE_SWITCH_GRACE_SECONDS = 0,
        !.STOP_DELAY_SECONDS = 3,
        !.START_DEBOUNCE_SECONDS = 1,
        !.CAMERA_BOOT_SECONDS = 2,
        !.ENABLE_PRESET_DELAYS = TRUE,
        !.PRESET_DELAYS_SECONDS = [p \in Presets |-> IF p = 1 THEN 2 ELSE 0],
        !.USE_TIMER_START = FALSE ]

(***************************************************************************)
(* The state as one record, so that a handler is an operator from state to *)
(* state and handlers compose as the calls in the source do.               *)
(***************************************************************************)
S ==
    [ cam_state |-> cam_state, cam_ready_at |-> cam_ready_at,
      queued_preset |-> queued_preset,
      pending_preset |-> pending_preset, pending_preset_due |-> pending_preset_due,
      pending_preset_delay_s |-> pending_preset_delay_s,
      pending_stream_start |-> pending_stream_start,
      pending_start_not_before |-> pending_start_not_before,
      stop_pending |-> stop_pending, stop_at |-> stop_at,
      last_stop_was_midi |-> last_stop_was_midi,
      service_end_running |-> service_end_running,
      timer_done_today_date |-> timer_done_today_date,
      timer_done_status |-> timer_done_status,
      last_start_request_ts |-> last_start_request_ts,
      start_grace_until |-> start_grace_until,
      desired_streaming |-> desired_streaming,
      ever_requested_stream |-> ever_requested_stream,
      stop_intent |-> stop_intent, stop_intent_set_at |-> stop_intent_set_at,
      recovering |-> recovering, recover_attempts |-> recover_attempts,
      recover_next_at |-> recover_next_at, recover_hold_until |-> recover_hold_until,
      was_streaming |-> was_streaming, last_obs_err |-> last_obs_err,
      last_critical_msg |-> last_critical_msg,
      obs_connected |-> obs_connected, obs_up |-> obs_up,
      obs_streaming |-> obs_streaming, obs_recording |-> obs_recording,
      obs_profile_ok |-> obs_profile_ok, timer_file |-> timer_file,
      h_last_accept |-> h_last_accept, h_last_req |-> h_last_req, h_run |-> h_run,
      h_restarted |-> h_restarted, h_replaced |-> h_replaced,
      h_pending_why |-> h_pending_why,
      out |-> <<>> ]

Commit(r) ==
    /\ cam_state' = r.cam_state /\ cam_ready_at' = r.cam_ready_at
    /\ queued_preset' = r.queued_preset
    /\ pending_preset' = r.pending_preset /\ pending_preset_due' = r.pending_preset_due
    /\ pending_preset_delay_s' = r.pending_preset_delay_s
    /\ pending_stream_start' = r.pending_stream_start
    /\ pending_start_not_before' = r.pending_start_not_before
    /\ stop_pending' = r.stop_pending /\ stop_at' = r.stop_at
    /\ last_stop_was_midi' = r.last_stop_was_midi
    /\ service_end_running' = r.service_end_running
    /\ timer_done_today_date' = r.timer_done_today_date
    /\ timer_done_status' = r.timer_done_status
    /\ last_start_request_ts' = r.last_start_request_ts
    /\ start_grace_until' = r.start_grace_until
    /\ desired_streaming' = r.desired_streaming
    /\ ever_requested_stream' = r.ever_requested_stream
    /\ stop_intent' = r.stop_intent /\ stop_intent_set_at' = r.stop_intent_set_at
    /\ recovering' = r.recovering /\ recover_attempts' = r.recover_attempts
    /\ recover_next_at' = r.recover_next_at /\ recover_hold_until' = r.recover_hold_until
    /\ was_streaming' = r.was_streaming /\ last_obs_err' = r.last_obs_err
    /\ last_critical_msg' = r.last_critical_msg
    /\ obs_connected' = r.obs_connected /\ obs_up' = r.obs_up
    /\ obs_streaming' = r.obs_streaming /\ obs_recording' = r.obs_recording
    /\ obs_profile_ok' = r.obs_profile_ok /\ timer_file' = r.timer_file
    /\ h_last_accept' = r.h_last_accept /\ h_last_req' = r.h_last_req /\ h_run' = r.h_run
    /\ h_restarted' = r.h_restarted /\ h_replaced' = r.h_replaced
    /\ h_pending_why' = r.h_pending_why
    /\ out' = r.out

\* self._post(...) of a line the properties read, or an outward call.
Emit(s, e) == [s EXCEPT !.out = Append(@, e)]

Has(o, e) == \E i \in 1..Len(o) : o[i] = e
Count(o, e) == Cardinality({i \in 1..Len(o) : o[i] = e})

note_critical(s, msg) == [s EXCEPT !.last_critical_msg = msg]

(***************************************************************************)
(* ObsController: a request succeeds when OBS answers (obs_up); a request  *)
(* that raises clears self.connected.                                      *)
(***************************************************************************)
obs_connect(s) == [s EXCEPT !.obs_connected = s.obs_up]

obs_ok(s) == s.obs_connected /\ s.obs_up

\* get_status(): the state after the call; the tuple is read with the next three.
obs_get_status(s) == IF s.obs_connected /\ ~s.obs_up THEN [s EXCEPT !.obs_connected = FALSE] ELSE s
status_streaming(s) == obs_ok(s) /\ s.obs_streaming
status_recording(s) == obs_ok(s) /\ s.obs_recording
status_err(s) == IF obs_ok(s) THEN "" ELSE "OBS offline"

\* start_stream(): the request is sent when connected; `by` names the caller.
obs_start_stream(s, by) ==
    IF ~s.obs_connected THEN s
    ELSE Emit([s EXCEPT !.obs_connected = s.obs_up], <<"start_stream", by>>)

obs_stop_stream(s) ==
    IF ~s.obs_connected THEN s
    ELSE Emit([s EXCEPT !.obs_connected = s.obs_up], <<"stop_stream">>)

obs_toggle_record(s) ==
    IF ~s.obs_connected THEN s
    ELSE IF ~s.obs_up THEN [s EXCEPT !.obs_connected = FALSE]
    ELSE Emit([s EXCEPT !.obs_recording = ~s.obs_recording], <<"toggle_record">>)

\* get_current_profile_name(): err is non-empty when the request fails.
profile_err(s) == ~obs_ok(s)

\* set_current_profile_name(expected)
obs_set_profile(s) ==
    IF obs_ok(s) THEN Emit([s EXCEPT !.obs_profile_ok = TRUE], <<"set_profile">>) ELSE s

(***************************************************************************)
(* Camera power state machine and presets                                  *)
(***************************************************************************)
camera_wake(s) ==
    IF s.cam_state \in {"WAKING", "AWAKE"} THEN s
    ELSE LET w == [s EXCEPT !.cam_state = "WAKING",
                            !.cam_ready_at = now + Sec(cfg.CAMERA_BOOT_SECONDS)]
         IN  IF cfg.HOME_TEST_MODE THEN w ELSE Emit(w, <<"power_on">>)

cancel_pending_preset(s) ==
    IF s.pending_preset = 0 THEN s
    ELSE Emit([s EXCEPT !.pending_preset = 0, !.pending_preset_due = 0,
                        !.pending_preset_delay_s = 0],
              <<"cancelled_preset", s.pending_preset>>)

\* a variant that leaves the queued and the pending preset in place
camera_sleep_keep_presets(s) ==
    LET a == [s EXCEPT !.cam_state = "SLEEP", !.cam_ready_at = 0]
    IN  IF cfg.HOME_TEST_MODE THEN a ELSE Emit(a, <<"power_off">>)

camera_sleep(s) ==
    LET a == [s EXCEPT !.cam_state = "SLEEP", !.cam_ready_at = 0, !.queued_preset = 0]
        b == cancel_pending_preset(a)
    IN  IF cfg.HOME_TEST_MODE THEN b ELSE Emit(b, <<"power_off">>)

\* via: "HUD", "MIDI", "WEB" (immediate), "QUEUE" (flushed on wake), "DELAY".
send_preset(s, preset_num, via) ==
    IF cfg.HOME_TEST_MODE THEN s ELSE Emit(s, <<"recall_preset", preset_num, via>>)

clamped_preset_delay(preset_num) ==
    LET raw == IF preset_num \in DOMAIN cfg.PRESET_DELAYS_SECONDS
               THEN cfg.PRESET_DELAYS_SECONDS[preset_num] ELSE 0
    IN  Max(0, Min(raw, 30))

\* a variant that keeps a pending preset instead of replacing it
schedule_preset_keep(s, preset_num, delay_s) ==
    IF s.pending_preset # 0 /\ s.pending_preset # preset_num
    THEN Emit(s, <<"preset_scheduled", preset_num>>)
    ELSE Emit([s EXCEPT !.pending_preset = preset_num,
                        !.pending_preset_delay_s = delay_s,
                        !.pending_preset_due = now + Sec(delay_s)],
              <<"preset_scheduled", preset_num>>)

schedule_preset(s, preset_num, delay_s) ==
    LET a == IF s.pending_preset # 0 /\ s.pending_preset # preset_num
             THEN [cancel_pending_preset(s) EXCEPT !.h_replaced = s.pending_preset]
             ELSE s
        b == Emit([a EXCEPT !.pending_preset = preset_num,
                            !.pending_preset_delay_s = delay_s,
                            !.pending_preset_due = now + Sec(delay_s)],
                  <<"preset_scheduled", preset_num>>)
    IN  IF b.cam_state = "SLEEP" /\ cfg.CAMERA_AUTO_WAKE_ON_PRESET
        THEN camera_wake(b) ELSE b

\* a variant that fires a due preset whatever the camera state
preset_delay_tick_any_state(s) ==
    IF s.pending_preset = 0 THEN s
    ELSE IF now < s.pending_preset_due THEN s
    ELSE send_preset([s EXCEPT !.pending_preset = 0, !.pending_preset_due = 0,
                               !.pending_preset_delay_s = 0],
                     s.pending_preset, "DELAY")

preset_delay_tick(s) ==
    IF s.pending_preset = 0 THEN s
    ELSE IF now < s.pending_preset_due THEN s
    ELSE IF ~cfg.HOME_TEST_MODE /\ s.cam_state # "AWAKE" THEN s
    ELSE send_preset([s EXCEPT !.pending_preset = 0, !.pending_preset_due = 0,
                               !.pending_preset_delay_s = 0],
                     s.pending_preset, "DELAY")

\* a variant that powers the camera on again while it is still booting
preset_now_or_queue_rewake(s, preset_num, source) ==
    IF s.cam_state # "AWAKE" /\ cfg.CAMERA_AUTO_WAKE_ON_PRESET
    THEN Emit([s EXCEPT !.queued_preset = preset_num, !.cam_state = "WAKING",
                        !.cam_ready_at = now + Sec(cfg.CAMERA_BOOT_SECONDS)],
              <<"power_on">>)
    ELSE send_preset(s, preset_num, source)

\* The tail shared by the HUD branch and the default branch of _handle_preset.
preset_now_or_queue(s, preset_num, source) ==
    IF s.cam_state = "SLEEP" /\ cfg.CAMERA_AUTO_WAKE_ON_PRESET
    THEN camera_wake([s EXCEPT !.queued_preset = preset_num])
    ELSE IF s.cam_state = "WAKING"
    THEN [s EXCEPT !.queued_preset = preset_num]
    ELSE send_preset(s, preset_num, source)

handle_preset(s, preset_num, source) ==
    LET q == Emit(s, <<"preset_request", preset_num, source>>)
        r == IF q.h_replaced = preset_num THEN [q EXCEPT !.h_replaced = 0] ELSE q
    IN  IF ~(1 <= preset_num /\ preset_num <= 10) THEN s
        ELSE IF source = "HUD"
        THEN preset_now_or_queue(cancel_pending_preset(r), preset_num, source)
        ELSE IF cfg.ENABLE_PRESET_DELAYS /\ clamped_preset_delay(preset_num) > 0
        THEN schedule_preset(r, preset_num, clamped_preset_delay(preset_num))
        ELSE preset_now_or_queue(r, preset_num, source)

(***************************************************************************)
(* Start / stop requests                                                   *)
(***************************************************************************)
\* Lines 2049-2093: profile preflight, then obs.start_stream().
\* a variant that looks at the stream output only
switch_refused_unless_recording(s) == status_err(s) = "" /\ status_streaming(s)

\* if (not serr) and (streaming or recording)
switch_refused(s) == status_err(s) = "" /\ (status_streaming(s) \/ status_recording(s))

start_preflight_and_send(s, source) ==
    LET send == LET r == obs_start_stream(s, "FLOW")
                IN  IF obs_ok(s) THEN Emit(r, <<"start_sent">>)
                    ELSE Emit([r EXCEPT !.pending_stream_start = TRUE,
                                        !.h_pending_why = "failed"],
                              <<"start_failed">>)
    IN
    IF ~cfg.OBS_PROFILE_CHECK_ENABLED THEN send
    ELSE IF profile_err(s) THEN send
    ELSE IF s.obs_profile_ok THEN send
    ELSE IF cfg.OBS_PROFILE_MISMATCH_ACTION = "warn" THEN send
    ELSE IF cfg.OBS_PROFILE_MISMATCH_ACTION = "switch"
    THEN LET g == obs_get_status(s)
         IN  IF switch_refused(s)
             THEN Emit([note_critical(g, "profile mismatch (cannot auto-switch)")
                           EXCEPT !.desired_streaming = FALSE],
                       <<"start_blocked">>)
             ELSE IF obs_ok(g)
             THEN Emit([obs_set_profile(g) EXCEPT
                           !.pending_stream_start = TRUE,
                           !.h_pending_why = "switch",
                           !.pending_start_not_before =
                               now + Max(TPS \div 2, Sec(cfg.OBS_PROFILE_SWITCH_GRACE_SECONDS)),
                           !.last_start_request_ts = 0],
                       <<"start_after_switch">>)
             ELSE Emit([note_critical(g, "profile mismatch (switch failed)")
                           EXCEPT !.desired_streaming = FALSE],
                       <<"start_blocked">>)
    ELSE Emit([note_critical(s, "profile mismatch") EXCEPT !.desired_streaming = FALSE],
              <<"start_blocked">>)

\* if (now - self._last_start_request_ts) < START_DEBOUNCE_SECONDS
start_debounced(s) ==
    (now - s.last_start_request_ts) < Sec(cfg.START_DEBOUNCE_SECONDS)

\* _start_stream_flow from "self._last_start_request_ts = now" on
start_accept(s, source) ==
    LET a == Emit([s EXCEPT
                 !.last_start_request_ts = now,
                 !.ever_requested_stream = TRUE,
                 !.desired_streaming = TRUE,
                 !.start_grace_until = now + Sec(Max(0, cfg.AUTO_RECOVER_START_GRACE_SECONDS)),
                 !.stop_intent = FALSE,
                 !.stop_intent_set_at = 0,
                 !.recover_hold_until = 0,
                 !.recovering = FALSE,
                 !.recover_attempts = 0,
                 !.recover_next_at = 0,
                 !.h_last_accept = now, !.h_run = 0,
                 !.h_last_req = IF source = "PENDING" THEN @ ELSE "start"],
              <<"start_accepted">>)
        defer == [a EXCEPT !.pending_stream_start = TRUE, !.h_pending_why = "camera"]
    IN  IF ~cfg.HOME_TEST_MODE /\ a.cam_state = "SLEEP" THEN camera_wake(defer)
        ELSE IF ~cfg.HOME_TEST_MODE /\ a.cam_state = "WAKING" THEN defer
        ELSE IF ~a.obs_connected THEN [defer EXCEPT !.h_pending_why = "offline"]
        ELSE start_preflight_and_send(a, source)

start_stream_flow(s, source) ==
    IF start_debounced(s)
    THEN Emit(s, <<"start_ignored">>)
    ELSE start_accept(s, source)

\* a variant in which a pending stop keeps its deadline
stop_deadline_kept(s) ==
    IF s.stop_pending THEN s.stop_at ELSE now + Sec(cfg.STOP_DELAY_SECONDS)

\* self._stop_at = time.time() + self.cfg.STOP_DELAY_SECONDS
stop_deadline(s) == now + Sec(cfg.STOP_DELAY_SECONDS)

request_stop(s, source) ==
    Emit([s EXCEPT
         !.desired_streaming = FALSE,
         !.stop_intent = TRUE,
         !.stop_intent_set_at = now,
         !.recovering = FALSE,
         !.recover_attempts = 0,
         !.recover_next_at = 0,
         !.last_stop_was_midi = (source = "MIDI"),
         !.stop_pending = TRUE,
         !.stop_at = stop_deadline(s),
         !.h_last_req = "stop", !.h_run = 0], <<"stop_requested">>)

\* rem = int(self._stop_at - time.time()); the deadline has come when rem <= 0.
stop_due(s) == IntSeconds(s.stop_at - now) <= 0

\* a variant that launches the sequence whatever the source of the stop
service_end_gate_any_source(s) ==
    /\ cfg.MIDI_STOP_TRIGGERS_FULL_SEQUENCE
    /\ cfg.SERVICE_END_SEQUENCE_ENABLED
    /\ ~s.service_end_running

\* _stop_tick: the condition under which the service-end sequence is launched
service_end_gate(s) ==
    /\ s.last_stop_was_midi
    /\ cfg.MIDI_STOP_TRIGGERS_FULL_SEQUENCE
    /\ cfg.SERVICE_END_SEQUENCE_ENABLED
    /\ ~s.service_end_running

stop_tick(s) ==
    IF ~s.stop_pending THEN s
    ELSE IF ~stop_due(s) THEN s
    ELSE
    LET a == obs_stop_stream([s EXCEPT !.stop_pending = FALSE])
        b == Emit(a, <<"stop_deadline">>)
        c == IF cfg.HOME_TEST_MODE THEN b ELSE camera_sleep(b)
        d == IF service_end_gate(c)
             THEN Emit([c EXCEPT !.service_end_running = TRUE], <<"service_end_started">>)
             ELSE c
    IN  [d EXCEPT !.last_stop_was_midi = FALSE]

toggle_record(s) == obs_toggle_record(s)

\* a variant that does not wait for the boot time
cam_ready_at_once(s) == s.cam_state = "WAKING"

\* if self.cam_state == "WAKING" and time.time() >= self.cam_ready_at
cam_ready(s) == s.cam_state = "WAKING" /\ now >= s.cam_ready_at

camera_ready_tick(s) ==
    IF cam_ready(s)
    THEN LET a == Emit([s EXCEPT !.cam_state = "AWAKE"], <<"cam_awake">>)
             b == IF a.queued_preset # 0
                  THEN send_preset([a EXCEPT !.queued_preset = 0], a.queued_preset, "QUEUE")
                  ELSE a
         IN  IF b.pending_stream_start
             THEN IF now < b.pending_start_not_before THEN b
                  ELSE start_stream_flow([b EXCEPT !.pending_stream_start = FALSE,
                                                   !.h_pending_why = ""], "PENDING")
             ELSE b
    ELSE s

(***************************************************************************)
(* Auto-recovery                                                           *)
(***************************************************************************)
\* a variant that never arms
arm_recovery_off(s) == s

arm_recovery(s) ==
    IF ~cfg.AUTO_RECOVER_ENABLED THEN s
    ELSE IF ~s.desired_streaming THEN s
    ELSE IF now < s.recover_hold_until THEN s
    ELSE IF ~s.recovering
    THEN Emit([s EXCEPT !.recovering = TRUE, !.recover_attempts = 0,
                        !.recover_next_at = now], <<"recovery_armed">>)
    ELSE s

\* a variant without the backoff: every delay is the base delay
recover_delay_flat(attempts) ==
    Max(3, cfg.AUTO_RECOVER_BASE_DELAY_SECONDS)

\* delay = max(3, int(base * mult ** max(0, attempts - 1))), in seconds
recover_delay(attempts) ==
    Max(3, cfg.AUTO_RECOVER_BASE_DELAY_SECONDS
           * Pow(cfg.AUTO_RECOVER_BACKOFF_MULTIPLIER, Max(0, attempts - 1)))

\* a variant in which the hold never applies
in_hold_never(s) == FALSE

\* if now < self._recover_hold_until: return
in_hold(s) == now < s.recover_hold_until

\* a variant that does not wait for the start to settle
in_start_grace_never(s) == FALSE

\* grace_until = self._start_grace_until; if now < grace_until: return
in_start_grace(s) == now < s.start_grace_until

\* a variant that starts a new cycle with the old attempt count
rearm_keep_attempts(s) ==
    IF ~s.recovering
    THEN [s EXCEPT !.recovering = TRUE, !.recover_next_at = now]
    ELSE s

\* if not self._recovering: ... self._recover_attempts = 0 (maintain live)
rearm(s) ==
    IF ~s.recovering
    THEN [s EXCEPT !.recovering = TRUE, !.recover_attempts = 0,
                   !.recover_next_at = now]
    ELSE s

\* a variant in which the next attempt never falls due
attempt_not_due_ever(s) == TRUE

\* if now < self._recover_next_at: return
attempt_not_due(s) == now < s.recover_next_at

\* a variant that never runs out of attempts
attempts_exhausted_never(s) == FALSE

\* if self._recover_attempts >= max_attempts
attempts_exhausted(s) == s.recover_attempts >= cfg.AUTO_RECOVER_MAX_ATTEMPTS

recovery_tick(s, streaming) ==
    IF ~cfg.AUTO_RECOVER_ENABLED THEN s
    ELSE IF streaming
    THEN LET a == [s EXCEPT !.start_grace_until = 0, !.h_run = 0]
         IN  IF a.recovering
             THEN [a EXCEPT !.recovering = FALSE, !.recover_attempts = 0,
                            !.recover_next_at = 0]
             ELSE a
    ELSE IF ~s.desired_streaming THEN [s EXCEPT !.recovering = FALSE]
    ELSE IF in_hold(s) THEN s
    ELSE IF in_start_grace(s) THEN s
    ELSE
    LET a == rearm(s)
    IN  IF attempt_not_due(a) THEN a
        ELSE IF attempts_exhausted(a)
        THEN Emit([note_critical(a, "Auto-recover paused (max attempts reached)")
                      EXCEPT !.recovering = FALSE, !.h_run = 0,
                             !.recover_hold_until =
                                 now + Sec(cfg.AUTO_RECOVER_COOLDOWN_SECONDS)],
                  <<"recover_paused">>)
        ELSE IF ~a.obs_connected
        THEN [a EXCEPT !.recover_next_at = now + Sec(3)]
        ELSE LET b == [a EXCEPT !.recover_attempts = @ + 1, !.h_run = @ + 1]
                 c == obs_start_stream(b, "RECOVER")
             IN  [c EXCEPT !.recover_next_at = now + Sec(recover_delay(b.recover_attempts))]

(***************************************************************************)
(* Scheduled auto-start.  now_in_cfg_tz(): day 0 is a Monday, so that      *)
(* weekday() is the day number modulo 7; a date is its day number.         *)
(***************************************************************************)
Today == now \div DayTicks
Weekday == Today % 7

\* parse_hhmm: "H:MM" -> (hh, mm)
parse_hhmm(hhmm) == <<hhmm[1], hhmm[2]>>

\* now.replace(hour=hh, minute=mm, second=0, microsecond=0)
timer_target_today ==
    LET t == parse_hhmm(cfg.TIMER_START_HHMM)
    IN  Today * DayTicks + Sec(t[1] * 3600 + t[2] * 60)

NoRecord == [date |-> NoDate, status |-> ""]

\* a variant that never reads the record file
load_timer_state_skipped(s, today) == s

\* today: now_in_cfg_tz(self.cfg).date() at the time of the call
load_timer_state(s, today) ==
    IF ~cfg.TIMER_PERSIST_STATE THEN s
    ELSE IF /\ s.timer_file.date # NoDate
            /\ s.timer_file.status \in {"fired", "missed"}
            /\ s.timer_file.date = today
    THEN [s EXCEPT !.timer_done_today_date = today,
                   !.timer_done_status = s.timer_file.status]
    ELSE s

save_timer_state(s, status) ==
    IF ~cfg.TIMER_PERSIST_STATE THEN s
    ELSE Emit([s EXCEPT !.timer_file = [date |-> Today, status |-> status]],
              <<"timer_saved", status>>)

\* a variant that forgets the day's outcome
timer_done_today_forgotten(s) == FALSE

\* if self._timer_done_today_date == today: return
timer_done_today(s) == s.timer_done_today_date = Today

\* a variant that does not ask the backend before starting
timer_sees_live_never(s) == FALSE

\* streaming, _, _ = self.obs.get_status(); if streaming: return
timer_sees_live(s) == status_streaming(s)

timer_tick(s) ==
    IF ~cfg.USE_TIMER_START THEN s
    ELSE IF Weekday # cfg.TIMER_WEEKDAY THEN s
    ELSE IF timer_done_today(s) THEN s
    ELSE
    LET delta == IntSeconds(timer_target_today - now)
        past == 0 - delta
    IN  IF delta > 0 THEN s
        ELSE IF past > cfg.TIMER_FIRE_GRACE_MINUTES * 60
        THEN save_timer_state([s EXCEPT !.timer_done_today_date = Today,
                                        !.timer_done_status = "missed"], "missed")
        ELSE LET a == save_timer_state([s EXCEPT !.timer_done_today_date = Today,
                                                 !.timer_done_status = "fired"], "fired")
                 g == obs_get_status(a)
             IN  IF timer_sees_live(a) THEN g
                 ELSE start_stream_flow(Emit(g, <<"timer_start">>), "TIMER")

(***************************************************************************)
(* App.loop: one iteration from the pending-start retry to the sleep.      *)
(***************************************************************************)
pending_start_retry(s) ==
    IF /\ s.pending_stream_start /\ s.obs_connected
       /\ now >= s.pending_start_not_before
       /\ (cfg.HOME_TEST_MODE \/ s.cam_state = "AWAKE")
    THEN start_stream_flow([s EXCEPT !.pending_stream_start = FALSE,
                                     !.h_pending_why = ""], "PENDING")
    ELSE s

\* Lines 4231-4350: stream transitions, then the recovery tick.
\* a variant in which the stop intent never expires
stop_intent_stale_never(s) == FALSE

\* if self._stop_intent and (time.time() - self._stop_intent_set_at) > 120.0
stop_intent_stale(s) == s.stop_intent /\ (now - s.stop_intent_set_at) > Sec(120)

stream_transitions(s, streaming, err) ==
    LET a == IF stop_intent_stale(s)
             THEN [s EXCEPT !.stop_intent = FALSE] ELSE s
        b == IF err # "" /\ err # a.last_obs_err
             THEN note_critical([a EXCEPT !.last_obs_err = err], "OBS error")
             ELSE IF err = "" /\ a.last_obs_err # ""
             THEN [a EXCEPT !.last_obs_err = ""]
             ELSE a
        c == IF streaming /\ ~b.was_streaming
             THEN Emit([b EXCEPT !.desired_streaming = TRUE,
                                 !.recovering = FALSE,
                                 !.recover_attempts = 0,
                                 !.recover_next_at = 0,
                                 !.recover_hold_until = 0], <<"stream_started">>)
             ELSE b
        d == IF ~streaming /\ c.was_streaming
             THEN IF c.stop_intent
                  THEN Emit([c EXCEPT !.stop_intent = FALSE], <<"requested_stop">>)
                  ELSE LET e == Emit(note_critical(c, "Stream stopped unexpectedly"),
                                     <<"unexpected_stop">>)
                       IN  IF cfg.AUTO_RECOVER_ENABLED THEN arm_recovery(e) ELSE e
             ELSE c
        f == recovery_tick(d, streaming)
    IN  [f EXCEPT !.was_streaming = streaming]

loop_body(s) ==
    LET a == pending_start_retry(s)
        b == camera_ready_tick(a)
        c == preset_delay_tick(b)
        d == stop_tick(c)
        e == timer_tick(d)
        g == obs_get_status(e)
    IN  stream_transitions(g, status_streaming(e), status_err(e))

\* App.__init__: the fields of a fresh process, then _load_timer_state().
\* w: the world the process starts in (OBS and the timer state file).
app_init(w, today) ==
    load_timer_state(
    [ cam_state |-> "SLEEP", cam_ready_at |-> 0, queued_preset |-> 0,
      pending_preset |-> 0, pending_preset_due |-> 0, pending_preset_delay_s |-> 0,
      pending_stream_start |-> FALSE,
      pending_start_not_before |-> 0,
      stop_pending |-> FALSE, stop_at |-> 0, last_stop_was_midi |-> FALSE,
      service_end_running |-> FALSE,
      timer_done_today_date |-> NoDate, timer_done_status |-> "",
      last_start_request_ts |-> 0, start_grace_until |-> 0,
      desired_streaming |-> FALSE, ever_requested_stream |-> FALSE,
      stop_intent |-> FALSE, stop_intent_set_at |-> 0,
      recovering |-> FALSE, recover_attempts |-> 0, recover_next_at |-> 0,
      recover_hold_until |-> 0,
      was_streaming |-> FALSE, last_obs_err |-> "", last_critical_msg |-> "",
      obs_connected |-> FALSE,
      obs_up |-> w.obs_up, obs_streaming |-> w.obs_streaming,
      obs_recording |-> w.obs_recording, obs_profile_ok |-> w.obs_profile_ok,
      timer_file |-> w.timer_file,
      h_last_accept |-> 0, h_last_req |-> "none", h_run |-> 0,
      h_restarted |-> FALSE, h_replaced |-> 0, h_pending_why |-> "", out |-> <<>> ], today)

Begin(r) ==
    /\ cam_state = r.cam_state /\ cam_ready_at = r.cam_ready_at
    /\ queued_preset = r.queued_preset
    /\ pending_preset = r.pending_preset /\ pending_preset_due = r.pending_preset_due
    /\ pending_preset_delay_s = r.pending_preset_delay_s
    /\ pending_stream_start = r.pending_stream_start
    /\ pending_start_not_before = r.pending_start_not_before
    /\ stop_pending = r.stop_pending /\ stop_at = r.stop_at
    /\ last_stop_was_midi = r.last_stop_was_midi
    /\ service_end_running = r.service_end_running
    /\ timer_done_today_date = r.timer_done_today_date
    /\ timer_done_status = r.timer_done_status
    /\ last_start_request_ts = r.last_start_request_ts
    /\ start_grace_until = r.start_grace_until
    /\ desired_streaming = r.desired_streaming
    /\ ever_requested_stream = r.ever_requested_stream
    /\ stop_intent = r.stop_intent /\ stop_intent_set_at = r.stop_intent_set_at
    /\ recovering = r.recovering /\ recover_attempts = r.recover_attempts
    /\ recover_next_at = r.recover_next_at /\ recover_hold_until = r.recover_hold_until
    /\ was_streaming = r.was_streaming /\ last_obs_err = r.last_obs_err
    /\ last_critical_msg = r.last_critical_msg
    /\ obs_connected = r.obs_connected /\ obs_up = r.obs_up
    /\ obs_streaming = r.obs_streaming /\ obs_recording = r.obs_recording
    /\ obs_profile_ok = r.obs_profile_ok /\ timer_file = r.timer_file
    /\ h_last_accept = r.h_last_accept /\ h_last_req = r.h_last_req /\ h_run = r.h_run
    /\ h_restarted = r.h_restarted /\ h_replaced = r.h_replaced
    /\ h_pending_why = r.h_pending_why
    /\ out = r.out

(***************************************************************************)
(* Actions.  A loop iteration is: HUD/WEB commands (_drain_cmds), the OBS  *)
(* reconnect, the MIDI messages, then the body and the sleep.              *)
(***************************************************************************)
Frame == UNCHANGED <<cfg, started_at, se_pc, se_deadline, se_wake, cmd_queue, ui_pc>>

\* _drain_cmds: one queued HUD/WEB command
CmdStart(src) ==
    /\ phase = "drain" /\ events > 0
    /\ Commit(start_stream_flow(S, src))
    /\ events' = events - 1 /\ UNCHANGED <<now, phase>> /\ Frame

CmdStop(src) ==
    /\ phase = "drain" /\ events > 0
    /\ Commit(request_stop(S, src))
    /\ events' = events - 1 /\ UNCHANGED <<now, phase>> /\ Frame

CmdRec(src) ==
    /\ phase = "drain" /\ events > 0
    /\ Commit(toggle_record(S))
    /\ events' = events - 1 /\ UNCHANGED <<now, phase>> /\ Frame

CmdPreset(n, src) ==
    /\ phase = "drain" /\ events > 0
    /\ Commit(handle_preset(S, n, src))
    /\ events' = events - 1 /\ UNCHANGED <<now, phase>> /\ Frame

\* loop: if not self.obs.connected and AUTO_RECONNECT_OBS: self.obs.connect()
Reconnect ==
    /\ phase = "drain"
    /\ Commit(IF ~obs_connected /\ cfg.AUTO_RECONNECT_OBS THEN obs_connect(S) ELSE S)
    /\ phase' = "midi" /\ UNCHANGED <<now, events>> /\ Frame

\* loop: for msg in self.midi.pending()
MidiStart ==
    /\ phase = "midi" /\ events > 0
    /\ Commit(start_stream_flow(S, "MIDI"))
    /\ events' = events - 1 /\ UNCHANGED <<now, phase>> /\ Frame

MidiStop ==
    /\ phase = "midi" /\ events > 0
    /\ Commit(request_stop(S, "MIDI"))
    /\ events' = events - 1 /\ UNCHANGED <<now, phase>> /\ Frame

MidiPreset(n) ==
    /\ phase = "midi" /\ events > 0
    /\ Commit(handle_preset(S, n, "MIDI"))
    /\ events' = events - 1 /\ UNCHANGED <<now, phase>> /\ Frame

\* the rest of the iteration, then asyncio.sleep: dt ticks to the next one
Tick(dt, horizon) ==
    /\ phase = "midi"
    /\ now + dt <= started_at + horizon
    /\ Commit(Emit(loop_body(S), <<"tick">>))
    /\ now' = now + dt /\ phase' = "drain" /\ UNCHANGED events /\ Frame

\* The world: OBS stops or resumes answering, its stream output goes on or
\* off (by OBS itself or its operator), its profile is changed by hand.
EnvObs ==
    /\ phase = "drain" /\ events > 0
    /\ Commit([S EXCEPT !.obs_up = ~obs_up])
    /\ events' = events - 1 /\ UNCHANGED <<now, phase>> /\ Frame

EnvStream ==
    /\ phase = "drain" /\ events > 0
    /\ Commit([S EXCEPT !.obs_streaming = ~obs_streaming])
    /\ events' = events - 1 /\ UNCHANGED <<now, phase>> /\ Frame

EnvProfile ==
    /\ phase = "drain" /\ obs_profile_ok /\ events > 0
    /\ Commit([S EXCEPT !.obs_profile_ok = FALSE])
    /\ events' = events - 1 /\ UNCHANGED <<now, phase>> /\ Frame

World == [obs_up : BOOLEAN, obs_streaming : {FALSE}, obs_recording : {FALSE},
          obs_profile_ok : BOOLEAN, timer_file : {NoRecord}]

StepsMain == {1, 2}

Init ==
    /\ cfg = MainCfg
    /\ now = Epoch /\ started_at = Epoch
    /\ cmd_queue = <<>> /\ ui_pc = "idle"
    /\ se_pc = "idle" /\ se_deadline = 0 /\ se_wake = 0
    /\ phase = "drain" /\ events = MaxEvents
    /\ \E w \in World : Begin(app_init(w, Epoch \div DayTicks))

Next ==
    \/ \E src \in {"HUD", "WEB"} : CmdStart(src)
    \/ \E src \in {"HUD", "WEB"} : CmdStop(src)
    \/ Reconnect
    \/ MidiStart
    \/ MidiStop
    \/ \E dt \in StepsMain : Tick(dt, HorizonMain)
    \/ EnvObs
    \/ EnvStream
    \/ EnvProfile

Spec == Init /\ [][Next]_vars

(***************************************************************************)
(* The recovery scenario: the shipped defaults, loop iterations taken       *)
(* 10 s apart, long enough for a whole cycle of attempts, the cooldown and *)
(* the attempt that follows it.                                            *)
(***************************************************************************)
RecoveryCfg == [DefaultCfg EXCEPT !.USE_TIMER_START = FALSE]

HorizonRecovery == 900
MaxEventsRecovery == 2
StepsRecovery == {Sec(10)}

InitRecovery ==
    /\ cfg = RecoveryCfg
    /\ now = Epoch /\ started_at = Epoch
    /\ cmd_queue = <<>> /\ ui_pc = "idle"
    /\ se_pc = "idle" /\ se_deadline = 0 /\ se_wake = 0
    /\ phase = "drain" /\ events = MaxEventsRecovery
    /\ \E w \in World : Begin(app_init(w, Epoch \div DayTicks))

NextRecovery ==
    \/ CmdStart("HUD")
    \/ CmdStop("HUD")
    \/ Reconnect
    \/ \E dt \in StepsRecovery : Tick(dt, HorizonRecovery)
    \/ EnvObs
    \/ EnvStream

SpecRecovery == InitRecovery /\ [][NextRecovery]_vars

(***************************************************************************)
(* The schedule scenario: the process comes up on a Saturday or a Sunday   *)
(* at a clock time around 9:55 or around the end of the grace window (one  *)
(* minute here), with any record file on disk, and may be restarted.       *)
(***************************************************************************)
TimerCfg == [DefaultCfg EXCEPT !.USE_TIMER_START = TRUE,
                               !.TIMER_FIRE_GRACE_MINUTES = 1]

HorizonTimer == 8
MaxEventsTimer == 2
StepsTimer == {1, 2}

Sunday == Epoch \div DayTicks
TimerDays == {Sunday - 1, Sunday}

\* ticks from 9:55:00 to the moment the process comes up
TimerOffsets == {0 - 3, 0 - 1, 0, 117, 119, 120, 121, 122}

\* the record file: absent, unreadable, or a record of some date and status
Unreadable == [date |-> NoDate, status |-> "unreadable"]

TimerFiles ==
    {NoRecord, Unreadable}
        \cup [date : TimerDays, status : {"fired", "missed"}]

WorldTimer == [obs_up : BOOLEAN, obs_streaming : BOOLEAN, obs_recording : {FALSE},
               obs_profile_ok : {TRUE}, timer_file : TimerFiles]

\* the process is stopped and launched again: a new App over the same world
Restart ==
    /\ phase = "drain" /\ events > 0
    /\ Commit(Emit([app_init([obs_up |-> obs_up, obs_streaming |-> obs_streaming,
                              obs_recording |-> obs_recording,
                              obs_profile_ok |-> obs_profile_ok,
                              timer_file |-> timer_file], Today)
                        EXCEPT !.h_restarted = TRUE],
                   <<"restart">>))
    /\ events' = events - 1 /\ UNCHANGED <<now, phase>> /\ Frame

InitTimer ==
    /\ cfg = TimerCfg
    /\ \E d \in TimerDays, o \in TimerOffsets :
           now = d * DayTicks + Sec(9 * 3600 + 55 * 60) + o
    /\ started_at = now
    /\ cmd_queue = <<>> /\ ui_pc = "idle"
    /\ se_pc = "idle" /\ se_deadline = 0 /\ se_wake = 0
    /\ phase = "drain" /\ events = MaxEventsTimer
    /\ \E w \in WorldTimer : Begin(app_init(w, now \div DayTicks))

NextTimer ==
    \/ CmdStart("HUD")
    \/ Reconnect
    \/ \E dt \in StepsTimer : Tick(dt, HorizonTimer)
    \/ EnvStream
    \/ Restart

SpecTimer == InitTimer /\ [][NextTimer]_vars

(***************************************************************************)
(* The preset scenario: per-preset delays enabled, preset 1 delayed by 2 s *)
(* and preset 2 by 1 s; presets arrive from the HUD, the web HUD and MIDI, *)
(* and a stop request puts the camera back to sleep.                       *)
(***************************************************************************)
PresetCfg == [MainCfg EXCEPT !.PRESET_DELAYS_SECONDS =
                                 [p \in Presets |-> IF p = 1 THEN 2 ELSE 1]]

HorizonPreset == 14
MaxEventsPreset == 3
StepsPreset == {1, 2}

InitPreset ==
    /\ cfg = PresetCfg
    /\ now = Epoch /\ started_at = Epoch
    /\ cmd_queue = <<>> /\ ui_pc = "idle"
    /\ se_pc = "idle" /\ se_deadline = 0 /\ se_wake = 0
    /\ phase = "drain" /\ events = MaxEventsPreset
    /\ \E w \in World : Begin(app_init(w, Epoch \div DayTicks))

NextPreset ==
    \/ \E n \in Presets, src \in {"HUD", "WEB"} : CmdPreset(n, src)
    \/ \E n \in Presets : MidiPreset(n)
    \/ CmdStop("HUD")
    \/ Reconnect
    \/ \E dt \in StepsPreset : Tick(dt, HorizonPreset)

SpecPreset == InitPreset /\ [][NextPreset]_vars

(***************************************************************************)
(* The stream-watch scenario: one operator at the HUD, OBS going down and  *)
(* up and its stream going on and off under the loop's eyes.               *)
(***************************************************************************)
HorizonWatch == 16
MaxEventsWatch == 3
StepsWatch == {1, 2}

InitWatch ==
    /\ cfg = MainCfg
    /\ now = Epoch /\ started_at = Epoch
    /\ cmd_queue = <<>> /\ ui_pc = "idle"
    /\ se_pc = "idle" /\ se_deadline = 0 /\ se_wake = 0
    /\ phase = "drain" /\ events = MaxEventsWatch
    /\ \E w \in World : Begin(app_init(w, Epoch \div DayTicks))

NextWatch ==
    \/ CmdStart("HUD")
    \/ CmdStop("HUD")
    \/ Reconnect
    \/ \E dt \in StepsWatch : Tick(dt, HorizonWatch)
    \/ EnvObs
    \/ EnvStream

SpecWatch == InitWatch /\ [][NextWatch]_vars

(***************************************************************************)
(* Properties                                                              *)
(***************************************************************************)
AppFields ==
    <<cam_state, cam_ready_at, queued_preset,
      pending_preset, pending_preset_due, pending_preset_delay_s,
      pending_stream_start, pending_start_not_before,
      stop_pending, stop_at, last_stop_was_midi, service_end_running,
      timer_done_today_date, timer_done_status,
      last_start_request_ts, start_grace_until,
      desired_streaming, ever_requested_stream, stop_intent, stop_intent_set_at,
      recovering, recover_attempts, recover_next_at, recover_hold_until,
      was_streaming, last_obs_err, last_critical_msg, obs_connected>>

\* A start request arrives: from the command queue or as a MIDI note.
StartRequest == (\E src \in {"HUD", "WEB"} : CmdStart(src)) \/ MidiStart
StopRequest == (\E src \in {"HUD", "WEB"} : CmdStop(src)) \/ MidiStop
IsTick == Has(out', <<"tick">>)
StartCalls(o) == Count(o, <<"start_stream", "FLOW">>) + Count(o, <<"start_stream", "RECOVER">>)

\* C1: a start request that arrives less than START_DEBOUNCE_SECONDS after the
\* last accepted start is ignored: it changes no state and sends no backend
\* start call.
C1_DebounceIgnoresSecond ==
    [][ (StartRequest /\ now - h_last_accept < Sec(cfg.START_DEBOUNCE_SECONDS))
        => (UNCHANGED AppFields /\ StartCalls(out') = 0) ]_vars

\* C2: no backend stop call is sent before the stop deadline
\* t + STOP_DELAY_SECONDS, neither by the request nor by a tick.
C2_NoStopBeforeDeadline ==
    [][ Has(out', <<"stop_stream">>) => (stop_pending /\ now >= stop_at) ]_vars

\* C3: a pending stop ends only with the backend stop call having been sent,
\* whatever the backend connectivity at that tick.
C3_StopNeverDiscarded ==
    [][ (stop_pending /\ ~stop_pending') => Has(out', <<"stop_stream">>) ]_vars

\* C4: on the tick where the camera reaches AWAKE with a deferred start waiting
\* (backend connected and answering, profile as expected), exactly one backend
\* start call is sent; and no start call of a request is sent while the camera
\* is SLEEP or WAKING.
C4_BootGating ==
    [][ /\ (/\ IsTick /\ cam_state = "WAKING" /\ Has(out', <<"cam_awake">>)
            /\ pending_stream_start /\ now >= pending_start_not_before
            /\ obs_connected /\ obs_up /\ obs_profile_ok)
           => StartCalls(out') = 1
        /\ Has(out', <<"start_stream", "FLOW">>)
           => (cam_state = "AWAKE" \/ Has(out', <<"cam_awake">>)) ]_vars

\* C5: after an accepted stop request with no later start request, recovery
\* is never armed and sends no backend start call.
C5_StopSuppressesRecovery ==
    [][ h_last_req' = "stop"
        => (~recovering' /\ ~Has(out', <<"start_stream", "RECOVER">>)) ]_vars


RecoverCall == Has(out', <<"start_stream", "RECOVER">>)

\* C6: under the shipped recovery settings (3 attempts, base 10 s, multiplier
\* 2.0) the k-th recovery start call of a run is followed by a scheduled delay
\* of 10 s, 20 s, 40 s for k = 1, 2, 3; a recovery start call is never made
\* inside the cooldown hold nor before the scheduled next attempt, and a run
\* never has a 4th call: the pause, which opens a 300 s hold, comes first.
C6_RecoveryBackoff ==
    [][ /\ h_run' <= 3
        /\ RecoverCall =>
             /\ recover_attempts' = h_run' /\ h_run' = h_run + 1
             /\ recover_next_at' =
                    now + Sec(CASE h_run' = 1 -> 10 [] h_run' = 2 -> 20 [] OTHER -> 40)
             /\ recover_next_at' - now >= Sec(3)
             /\ now >= recover_hold_until
             /\ recovering => now >= recover_next_at
        /\ Has(out', <<"recover_paused">>) =>
             /\ h_run = 3 /\ ~recovering'
             /\ recover_hold_until' = now + Sec(300) ]_vars


\* the third recovery start call of a run has just been made, backend connected
C6_Witness ==
    /\ Has(out, <<"start_stream", "RECOVER">>) /\ h_run = 3
    /\ obs_connected /\ ~obs_streaming
    /\ recover_next_at = (now - Sec(10)) + Sec(40)

\* the first call after a cooldown hold that was entered and has expired
C6_AfterHold ==
    /\ Has(out, <<"start_stream", "RECOVER">>) /\ h_run = 1
    /\ recover_hold_until > 0 /\ now > recover_hold_until


TimerStarts(o) == Count(o, <<"timer_start">>)
TimerSaves(o) ==
    Count(o, <<"timer_saved", "fired">>) + Count(o, <<"timer_saved", "missed">>)
ScheduledDay == Weekday = cfg.TIMER_WEEKDAY
SinceTarget == now - timer_target_today
GraceTicks == Sec(cfg.TIMER_FIRE_GRACE_MINUTES * 60)
RecordToday == timer_file.date = Today /\ timer_file.status \in {"fired", "missed"}
ReportsLive == obs_connected /\ obs_up /\ obs_streaming

\* C7 as stated: on the scheduled weekday a loop iteration at or after the
\* scheduled instant (within the grace window) with no record for the date
\* makes exactly one requestStart("TIMER") call and writes the record once;
\* no iteration makes a call or a write once the date has a record.
C7_FireOnce ==
    [][ (IsTick /\ ScheduledDay) =>
          /\ TimerStarts(out') <= 1 /\ TimerSaves(out') <= 1
          /\ (TimerStarts(out') + TimerSaves(out') > 0) => ~RecordToday
          /\ (~RecordToday /\ SinceTarget >= 0 /\ SinceTarget <= GraceTicks)
                => (TimerStarts(out') = 1 /\ TimerSaves(out') = 1) ]_vars

\* C7 amended: as above, but the iteration that fires the schedule makes the
\* requestStart("TIMER") call exactly when the backend does not report live,
\* and no call when it does; the record is still written exactly once.
C7_FireOnceUnlessLive ==
    [][ (IsTick /\ ScheduledDay) =>
          /\ TimerStarts(out') <= 1 /\ TimerSaves(out') <= 1
          /\ (TimerStarts(out') + TimerSaves(out') > 0) => ~RecordToday
          /\ TimerStarts(out') = 1 => Has(out', <<"timer_saved", "fired">>)
          /\ (~RecordToday /\ SinceTarget >= 0 /\ SinceTarget <= GraceTicks)
                => /\ Has(out', <<"timer_saved", "fired">>)
                   /\ timer_file' = [date |-> Today, status |-> "fired"]
                   /\ TimerStarts(out') = (IF ReportsLive THEN 0 ELSE 1) ]_vars

\* the schedule has just fired with the backend not live: one call, one record
C7_Witness ==
    /\ Has(out, <<"timer_start">>) /\ Has(out, <<"timer_saved", "fired">>)
    /\ timer_file.status = "fired" /\ timer_done_status = "fired"
    /\ ~obs_streaming

\* C8: on the scheduled weekday, with no record for the date, an iteration
\* later than the grace window after the scheduled instant writes the record
\* as missed and makes no requestStart("TIMER") call, and none is made while
\* the date's record says missed; an iteration at the scheduled instant or up
\* to the end of the grace window fires the schedule.
C8_MissedGuard ==
    [][ (IsTick /\ ScheduledDay) =>
          /\ (~RecordToday /\ SinceTarget > GraceTicks)
                => /\ timer_file' = [date |-> Today, status |-> "missed"]
                   /\ TimerStarts(out') = 0
          /\ (RecordToday /\ timer_file.status = "missed") => TimerStarts(out') = 0
          /\ (~RecordToday /\ SinceTarget >= 0 /\ SinceTarget <= GraceTicks)
                => Has(out', <<"timer_saved", "fired">>) ]_vars

\* C9: while the file holds a fired or missed record of today's date, a launch
\* of the process loads it, and no iteration makes a requestStart("TIMER")
\* call or writes the record; a launch over an absent or unreadable file, or
\* over a record of another date, starts with no record for today.
C9_RestartSafe ==
    [][ /\ RecordToday =>
             /\ TimerStarts(out') = 0 /\ TimerSaves(out') = 0
             /\ timer_file' = timer_file
             /\ timer_done_today_date' = Today
             /\ timer_done_status' = timer_file.status
        /\ (Has(out', <<"restart">>) /\ ~RecordToday)
             => timer_done_today_date' = NoDate ]_vars

\* after a restart on a day whose record says fired, an iteration past the
\* scheduled instant has run and left the record alone
C9_Witness ==
    /\ h_restarted /\ Has(out, <<"tick">>)
    /\ Weekday = cfg.TIMER_WEEKDAY /\ now > timer_target_today
    /\ timer_file = [date |-> Today, status |-> "fired"]
    /\ timer_done_today_date = Today


RecallCount(o) == Cardinality({i \in DOMAIN o : o[i][1] = "recall_preset"})
DelayedRecall(o, n) == Has(o, <<"recall_preset", n, "DELAY">>)
DelayedCount(o) ==
    Cardinality({i \in DOMAIN o : o[i][1] = "recall_preset" /\ o[i][3] = "DELAY"})
Scheduled(o, n) == Has(o, <<"preset_scheduled", n>>)
CameraAwakeInTick == cam_state = "AWAKE" \/ Has(out', <<"cam_awake">>)

\* C10 as stated: scheduling delayed preset B while a different delayed preset
\* A is pending cancels A and installs B with its own due time, sending
\* nothing; the scheduler never recalls a replaced preset (unless it is
\* requested again); a delayed recall is only ever the pending preset, once,
\* not before its due time; and B is recalled on the first loop iteration at
\* or after its due time.
C10_ReplaceNotStack ==
    [][ /\ \A n \in Presets :
             /\ Scheduled(out', n) =>
                  /\ pending_preset' = n /\ RecallCount(out') = 0
                  /\ pending_preset_due' = now + Sec(clamped_preset_delay(n))
                  /\ pending_preset \notin {0, n} =>
                       (Has(out', <<"cancelled_preset", pending_preset>>)
                          /\ h_replaced' = pending_preset)
             /\ DelayedRecall(out', n) =>
                  /\ n = pending_preset /\ now >= pending_preset_due
                  /\ DelayedCount(out') = 1 /\ pending_preset' = 0
        /\ (h_replaced # 0 /\ h_replaced' = h_replaced) =>
               ~DelayedRecall(out', h_replaced)
        /\ (IsTick /\ h_replaced # 0 /\ pending_preset # 0
                   /\ now >= pending_preset_due)
               => DelayedRecall(out', pending_preset) ]_vars

\* C10 amended: as above, but B is recalled on the first loop iteration at or
\* after its due time in which the camera is AWAKE; while the camera is not
\* AWAKE nothing is sent and B stays pending unless the camera is put to sleep.
C10_ReplaceThenFireWhenAwake ==
    [][ /\ \A n \in Presets :
             /\ Scheduled(out', n) =>
                  /\ pending_preset' = n /\ RecallCount(out') = 0
                  /\ pending_preset_due' = now + Sec(clamped_preset_delay(n))
                  /\ pending_preset \notin {0, n} =>
                       (Has(out', <<"cancelled_preset", pending_preset>>)
                          /\ h_replaced' = pending_preset)
             /\ DelayedRecall(out', n) =>
                  /\ n = pending_preset /\ now >= pending_preset_due
                  /\ DelayedCount(out') = 1 /\ pending_preset' = 0
        /\ (h_replaced # 0 /\ h_replaced' = h_replaced) =>
               ~DelayedRecall(out', h_replaced)
        /\ (IsTick /\ h_replaced # 0 /\ pending_preset # 0
                   /\ now >= pending_preset_due)
               => /\ DelayedRecall(out', pending_preset) <=> CameraAwakeInTick
                  /\ ~CameraAwakeInTick =>
                       \/ pending_preset' = pending_preset
                       \/ Has(out', <<"power_off">>) ]_vars

\* preset 2 replaced the pending preset 1 and has just been recalled
C10_Witness ==
    /\ h_replaced = 1 /\ DelayedRecall(out, 2) /\ RecallCount(out) = 1
    /\ pending_preset = 0 /\ cam_state = "AWAKE"


\* C11: desired_streaming is true exactly when the most recent accepted
\* start/stop request was a start (false before any request); loop iterations
\* and backend status observations leave it alone.
C11_DesiredReflectsLastRequest ==
    desired_streaming <=> (h_last_req = "start")

StreamWentDown == IsTick /\ was_streaming /\ ~was_streaming'
StopIntentExpired == now - stop_intent_set_at > Sec(120)

\* C12: on a loop iteration where the observed live status goes from true to
\* false, the transition is classified exactly once.  Without stop intent it
\* is unexpected: the sticky critical message is recorded and, with
\* desired_streaming true and no hold in force, recovery is armed from zero
\* attempts (the attempts counted afterwards are the start calls of this very
\* iteration).  With stop intent it is requested: the intent is consumed and
\* the critical message of an unexpected stop is not recorded.
C12_UnexpectedStopDetection ==
    [][ StreamWentDown =>
          /\ Has(out', <<"unexpected_stop">>) # Has(out', <<"requested_stop">>)
          /\ (~stop_intent \/ StopIntentExpired) => Has(out', <<"unexpected_stop">>)
          /\ (stop_intent /\ ~StopIntentExpired /\ ~Has(out', <<"start_accepted">>))
                => Has(out', <<"requested_stop">>)
          /\ Has(out', <<"unexpected_stop">>) =>
                /\ last_critical_msg' = "Stream stopped unexpectedly"
                /\ (desired_streaming' /\ now >= recover_hold_until) =>
                      /\ Has(out', <<"recovery_armed">>) /\ recovering'
                      /\ recover_attempts' = Count(out', <<"start_stream", "RECOVER">>)
                /\ ~desired_streaming' => ~Has(out', <<"recovery_armed">>)
          /\ Has(out', <<"requested_stop">>) =>
                /\ stop_intent /\ ~stop_intent'
                /\ ~Has(out', <<"recovery_armed">>)
                /\ last_critical_msg' # "Stream stopped unexpectedly" ]_vars

\* the stream was live, dropped with no stop intent, and recovery was armed
C12_Witness ==
    /\ Has(out, <<"unexpected_stop">>) /\ Has(out, <<"recovery_armed">>)
    /\ recovering /\ desired_streaming /\ ~was_streaming
    /\ last_critical_msg = "Stream stopped unexpectedly"


RecoverPaused == Has(out', <<"recover_paused">>)

\* C13: when the attempts have reached AUTO_RECOVER_MAX_ATTEMPTS and the next
\* attempt falls due, recovery deactivates without a start call, the hold is
\* set to now + AUTO_RECOVER_COOLDOWN_SECONDS and the sticky critical message
\* is recorded; recovery makes no start call while the hold lasts; and the
\* hold ends early only when a start request is accepted or the stream is
\* observed live.
C13_ExhaustedRetryHold ==
    [][ /\ RecoverPaused =>
             /\ recover_attempts = cfg.AUTO_RECOVER_MAX_ATTEMPTS
             /\ recover_attempts' = recover_attempts
             /\ recovering /\ ~recovering' /\ ~RecoverCall
             /\ recover_hold_until' = now + Sec(cfg.AUTO_RECOVER_COOLDOWN_SECONDS)
             /\ last_critical_msg' = "Auto-recover paused (max attempts reached)"
        /\ (recovering /\ ~was_streaming' /\ IsTick /\ desired_streaming'
               /\ recover_attempts >= cfg.AUTO_RECOVER_MAX_ATTEMPTS
               /\ now >= recover_next_at /\ now >= start_grace_until')
             => RecoverPaused
        /\ RecoverCall => now >= recover_hold_until
        /\ recover_hold_until' # recover_hold_until =>
             \/ RecoverPaused
             \/ Has(out', <<"start_accepted">>) /\ recover_hold_until' = 0
             \/ Has(out', <<"stream_started">>) /\ recover_hold_until' = 0 ]_vars

\* the hold is in force: paused some time ago, stream still down, no call
C13_Witness ==
    /\ now < recover_hold_until /\ now > recover_hold_until - Sec(280)
    /\ ~recovering /\ desired_streaming /\ ~obs_streaming /\ obs_connected
    /\ recover_attempts = 3 /\ Has(out, <<"tick">>)
    /\ last_critical_msg = "Auto-recover paused (max attempts reached)"

\* a start request accepted inside the hold has cleared it
C13_HoldCleared ==
    /\ Has(out, <<"start_accepted">>) /\ recover_hold_until = 0
    /\ last_critical_msg = "Auto-recover paused (max attempts reached)"


\* C13 as stated: as C13_ExhaustedRetryHold, but the hold ends early only when
\* a start request is accepted.
C13_HoldUntilStartOnly ==
    [][ /\ RecoverPaused =>
             /\ ~recovering' /\ ~RecoverCall
             /\ recover_hold_until' = now + Sec(cfg.AUTO_RECOVER_COOLDOWN_SECONDS)
             /\ last_critical_msg' = "Auto-recover paused (max attempts reached)"
        /\ RecoverCall => now >= recover_hold_until
        /\ recover_hold_until' # recover_hold_until =>
             \/ RecoverPaused
             \/ Has(out', <<"start_accepted">>) /\ recover_hold_until' = 0 ]_vars


FlowStart == Has(out', <<"start_stream", "FLOW">>)
BackendReady == obs_connected /\ obs_up /\ obs_profile_ok

\* C14: a start deferred for the camera (accepted while SLEEP or WAKING, with
\* no stop requested since) leads to a backend start call on the loop
\* iteration in which the camera becomes AWAKE, when the backend is connected.
C14_DeferredStartOnWake ==
    [][ (/\ IsTick /\ cam_state = "WAKING" /\ Has(out', <<"cam_awake">>)
         /\ pending_stream_start /\ h_pending_why = "camera"
         /\ h_last_req = "start" /\ BackendReady)
        => FlowStart ]_vars

\* C15: a start deferred because the backend was disconnected (accepted with
\* the camera AWAKE) leads to a backend start call on the first loop
\* iteration at which the backend is connected again, however soon that is.
C15_DeferredStartOnReconnect ==
    [][ (/\ IsTick /\ cam_state = "AWAKE"
         /\ pending_stream_start /\ h_pending_why = "offline"
         /\ h_last_req = "start" /\ BackendReady)
        => FlowStart ]_vars

\* C16: a start left pending by a failed backend start call is retried on a
\* following loop iteration with the backend connected: the retry is not
\* rejected by the debounce check and makes another backend start call.
C16_FailedStartRetried ==
    [][ (/\ IsTick /\ cam_state = "AWAKE"
         /\ pending_stream_start /\ h_pending_why = "failed"
         /\ h_last_req = "start" /\ BackendReady)
        => (~Has(out', <<"start_ignored">>) /\ FlowStart) ]_vars


\* C17: the camera starts in SLEEP; power-on is sent only from SLEEP and
\* sets the wake-ready deadline to now + CAMERA_BOOT_SECONDS, which stays put
\* while WAKING; the camera becomes AWAKE only from WAKING, only in a loop
\* iteration, and only at or after that deadline; from SLEEP the only way on
\* is WAKING.
C17_BootTimeHonoured ==
    /\ cam_state = "SLEEP"
    /\ [][ /\ Has(out', <<"power_on">>) =>
                /\ cam_state' = "WAKING"
                /\ cam_ready_at' = now + Sec(cfg.CAMERA_BOOT_SECONDS)
           /\ (cam_state = "WAKING" /\ cam_state' = "WAKING") =>
                cam_ready_at' = cam_ready_at
           /\ (cam_state # "AWAKE" /\ cam_state' = "AWAKE") =>
                /\ cam_state = "WAKING" /\ IsTick /\ Has(out', <<"cam_awake">>)
                /\ now >= cam_ready_at
                /\ cam_ready_at >= Sec(cfg.CAMERA_BOOT_SECONDS)
           /\ cam_state = "SLEEP" => cam_state' \in {"SLEEP", "WAKING"}
           /\ (cam_state = "SLEEP" /\ cam_state' = "WAKING") => Has(out', <<"power_on">>)
         ]_vars

\* the camera has just become AWAKE, the boot time after power-on
C17_Witness ==
    /\ cam_state = "AWAKE" /\ Has(out, <<"cam_awake">>)
    /\ now > cam_ready_at /\ cam_ready_at = Epoch + Sec(cfg.CAMERA_BOOT_SECONDS)

\* C18: a wake-ready deadline is carried only while the camera is WAKING: in
\* SLEEP and in AWAKE cam_ready_at is unset (0).
C18_DeadlineOnlyWhileWaking ==
    cam_state # "WAKING" => cam_ready_at = 0


OperatorPreset(o, n) ==
    Has(o, <<"preset_request", n, "HUD">>) \/ Has(o, <<"preset_request", n, "WEB">>)

\* C19: a preset requested by the operator (PC HUD or Web HUD) is never placed
\* in the delayed-preset scheduler, even with delays enabled: handling it
\* schedules nothing, leaves no scheduled preset pending (one that was pending
\* is cancelled), and with the camera AWAKE recalls the preset at once.
C19_OperatorPresetsWin ==
    [][ \A n \in Presets : OperatorPreset(out', n) =>
            /\ ~(\E m \in Presets : Scheduled(out', m))
            /\ pending_preset' = 0
            /\ cam_state = "AWAKE" =>
                 /\ Has(out', <<"recall_preset", n, "HUD">>)
                        \/ Has(out', <<"recall_preset", n, "WEB">>)
                 /\ RecallCount(out') = 1
      ]_vars


(***************************************************************************)
(* The two threads.  App.run keeps the Tk main loop on the main thread and *)
(* App.loop runs on the worker thread.  A HUD button either puts a command *)
(* on the queue that the loop drains (_enqueue_cmd, _drain_cmds), or, in   *)
(* the PC-only and church_stream_guard variants, calls the handler itself  *)
(* on the Tk thread while the loop goes on: check and write of such a call *)
(* are separate steps, and the loop may run between them.  SpecQueue is    *)
(* the first wiring, SpecDirect the second.                                *)
(***************************************************************************)
HorizonThreads == 8
MaxEventsThreads == 3
StepsThreads == {1, 2}
UiActions == {"start", "stop"}

\* _ui_fire -> _enqueue_cmd: q.put_nowait(cmd) on the loop
UiEnqueue(action) ==
    /\ events > 0 /\ ui_pc = "idle"
    /\ cmd_queue' = Append(cmd_queue, action)
    /\ events' = events - 1
    /\ UNCHANGED <<cfg, started_at, se_pc, se_deadline, se_wake, ui_pc, now, phase>>
    /\ Commit(S)

\* _drain_cmds: cmd = self._cmd_queue.get_nowait(), then its handler
DrainCmd ==
    /\ phase = "drain" /\ cmd_queue # <<>>
    /\ Commit(IF Head(cmd_queue) = "start" THEN start_stream_flow(S, "HUD")
              ELSE request_stop(S, "HUD"))
    /\ cmd_queue' = Tail(cmd_queue)
    /\ UNCHANGED <<cfg, started_at, se_pc, se_deadline, se_wake, ui_pc, now, phase, events>>

\* _ui_fire of the PC-only variants, entered on the Tk thread: for a start
\* the debounce test is read here
UiCall(action) ==
    /\ events > 0 /\ ui_pc = "idle"
    /\ ui_pc' = IF action = "stop" THEN "stop"
                ELSE IF start_debounced(S) THEN "start_ignored" ELSE "start_checked"
    /\ events' = events - 1
    /\ UNCHANGED <<cfg, started_at, se_pc, se_deadline, se_wake, cmd_queue, now, phase>>
    /\ Commit(S)

\* the rest of that call: the handler's writes, still on the Tk thread
UiReturn ==
    /\ ui_pc # "idle"
    /\ Commit(CASE ui_pc = "stop" -> request_stop(S, "HUD")
                [] ui_pc = "start_ignored" -> Emit(S, <<"start_ignored">>)
                [] OTHER -> start_accept(S, "HUD"))
    /\ ui_pc' = "idle"
    /\ UNCHANGED <<cfg, started_at, se_pc, se_deadline, se_wake, cmd_queue, now, phase, events>>

InitThreads ==
    /\ cfg = MainCfg
    /\ now = Epoch /\ started_at = Epoch
    /\ cmd_queue = <<>> /\ ui_pc = "idle"
    /\ se_pc = "idle" /\ se_deadline = 0 /\ se_wake = 0
    /\ phase = "drain" /\ events = MaxEventsThreads
    /\ \E w \in World : Begin(app_init(w, Epoch \div DayTicks))

\* the HUD wired to the command queue
NextQueue ==
    \/ \E a \in UiActions : UiEnqueue(a)
    \/ DrainCmd
    \/ (cmd_queue = <<>> /\ Reconnect)
    \/ MidiStart
    \/ \E dt \in StepsThreads : Tick(dt, HorizonThreads)

SpecQueue == InitThreads /\ [][NextQueue]_vars

\* the HUD calling the handlers itself
NextDirect ==
    \/ \E a \in UiActions : UiCall(a)
    \/ UiReturn
    \/ Reconnect
    \/ MidiStart
    \/ \E dt \in StepsThreads : Tick(dt, HorizonThreads)

SpecDirect == InitThreads /\ [][NextDirect]_vars

\* C20: single writer.  Session, camera, pending-preset and recovery state
\* change only in steps of the loop, with the Tk thread outside any handler;
\* a manual command reaches the loop through the command queue and is applied
\* at the drain point of an iteration, never inside one; and a start is
\* accepted only if the debounce test holds at the moment the request time is
\* written, so two concurrent start requests cannot both pass it.
C20_SingleWriter ==
    [][ /\ AppFields' # AppFields => ui_pc = "idle" /\ ui_pc' = "idle"
        /\ Len(cmd_queue') < Len(cmd_queue) => phase = "drain"
        /\ Has(out', <<"start_accepted">>) => ~start_debounced(S)
      ]_vars

\* a queued command was applied by the loop at its drain point
C20_QueueWitness ==
    /\ cmd_queue = <<>> /\ events < MaxEventsThreads /\ phase = "drain"
    /\ Has(out, <<"start_accepted">>) /\ ui_pc = "idle"

\* the debounce part of C20 alone
C20_DebounceAtomic ==
    [][ Has(out', <<"start_accepted">>) => ~start_debounced(S) ]_vars


TimerDue == ScheduledDay /\ ~RecordToday /\ SinceTarget >= 0 /\ SinceTarget <= GraceTicks

\* C21: on the loop iteration where the schedule is due within the grace
\* window and the backend already reports live, the day's record is written
\* as fired and requestStart("TIMER") is not invoked: no start is accepted,
\* the last-request time and the start grace stay as they were, and no
\* backend start call is made (a start deferred earlier aside).
C21_TimerWhenLive ==
    [][ (IsTick /\ TimerDue /\ ReportsLive) =>
          /\ Has(out', <<"timer_saved", "fired">>)
          /\ timer_file' = [date |-> Today, status |-> "fired"]
          /\ timer_done_today_date' = Today /\ timer_done_status' = "fired"
          /\ TimerStarts(out') = 0
          /\ ~pending_stream_start =>
                /\ ~Has(out', <<"start_accepted">>) /\ ~Has(out', <<"start_ignored">>)
                /\ StartCalls(out') = 0
                /\ last_start_request_ts' = last_start_request_ts
                /\ start_grace_until' = start_grace_until
                /\ pending_stream_start' = pending_stream_start
                /\ cam_state' = cam_state ]_vars

\* the schedule has just fired with the backend live: a record, no start
C21_Witness ==
    /\ Has(out, <<"timer_saved", "fired">>) /\ ~Has(out, <<"timer_start">>)
    /\ timer_file = [date |-> Today, status |-> "fired"]
    /\ obs_connected /\ obs_streaming /\ last_start_request_ts = 0


(***************************************************************************)
(* The profile preflight: both mismatch policies, a backend that may be    *)
(* streaming or recording, and a profile changed by hand.                  *)
(***************************************************************************)
ProfileCfg(action) == [MainCfg EXCEPT !.OBS_PROFILE_MISMATCH_ACTION = action]

HorizonProfile == 10
MaxEventsProfile == 3
StepsProfile == {1, 2}

WorldProfile == [obs_up : BOOLEAN, obs_streaming : BOOLEAN, obs_recording : BOOLEAN,
                 obs_profile_ok : BOOLEAN, timer_file : {NoRecord}]

InitProfile ==
    /\ cfg \in {ProfileCfg("switch"), ProfileCfg("block")}
    /\ now = Epoch /\ started_at = Epoch
    /\ cmd_queue = <<>> /\ ui_pc = "idle"
    /\ se_pc = "idle" /\ se_deadline = 0 /\ se_wake = 0
    /\ phase = "drain" /\ events = MaxEventsProfile
    /\ \E w \in WorldProfile : Begin(app_init(w, Epoch \div DayTicks))

NextProfile ==
    \/ CmdStart("HUD")
    \/ CmdRec("HUD")
    \/ Reconnect
    \/ MidiStart
    \/ \E dt \in StepsProfile : Tick(dt, HorizonProfile)
    \/ EnvObs
    \/ EnvStream
    \/ EnvProfile

SpecProfile == InitProfile /\ [][NextProfile]_vars

\* a start request is accepted in this step with the camera ready and the
\* backend answering, and the backend's profile is not the expected one
MismatchSeen ==
    /\ Has(out', <<"start_accepted">>)
    /\ CameraAwakeInTick /\ obs_connected /\ obs_up
    /\ cfg.OBS_PROFILE_CHECK_ENABLED /\ ~obs_profile_ok
SetProfile == Has(out', <<"set_profile">>)
Blocked == Has(out', <<"start_blocked">>)

\* C22: under mismatch policy switch the set-profile call is never issued
\* while the backend reports streaming or recording; a start request that
\* meets a mismatch then is aborted with a critical message and without a
\* backend start call.
C22_NoSwitchWhileLive ==
    [][ /\ SetProfile => ~(obs_streaming \/ obs_recording)
        /\ (MismatchSeen /\ cfg.OBS_PROFILE_MISMATCH_ACTION = "switch"
                /\ (obs_streaming \/ obs_recording)) =>
              /\ ~SetProfile /\ Blocked
              /\ StartCalls(out') = 0
              /\ last_critical_msg' # "" /\ ~obs_profile_ok'
      ]_vars

\* a start request has just been refused because the backend is recording
C22_Witness ==
    /\ cfg.OBS_PROFILE_MISMATCH_ACTION = "switch"
    /\ Has(out, <<"start_blocked">>) /\ ~Has(out, <<"set_profile">>)
    /\ obs_recording /\ ~obs_profile_ok
    /\ last_critical_msg = "profile mismatch (cannot auto-switch)"


\* C23: with the preflight enabled and policy block, a start request that
\* meets a profile mismatch makes no backend start call, records a critical
\* message, leaves no pending start and leaves desired_streaming false; and a
\* loop iteration that begins with nothing desired and nothing pending makes
\* no backend start call, so neither a later iteration nor the recovery
\* policy starts the stream for that request.
C23_BlockAborts ==
    [][ /\ (MismatchSeen /\ cfg.OBS_PROFILE_MISMATCH_ACTION = "block") =>
              /\ Blocked /\ ~SetProfile
              /\ StartCalls(out') = 0
              /\ last_critical_msg' # ""
              /\ ~pending_stream_start'
              /\ ~desired_streaming'
        /\ (IsTick /\ ~desired_streaming /\ ~pending_stream_start) =>
              StartCalls(out') = 0
      ]_vars


(***************************************************************************)
(* The camera with everything that wakes it or puts it to sleep: starts,   *)
(* stops, operator presets and MIDI presets.                               *)
(***************************************************************************)
HorizonCamera == 14
MaxEventsCamera == 3
StepsCamera == {1, 2}

InitCamera ==
    /\ cfg = PresetCfg
    /\ now = Epoch /\ started_at = Epoch
    /\ cmd_queue = <<>> /\ ui_pc = "idle"
    /\ se_pc = "idle" /\ se_deadline = 0 /\ se_wake = 0
    /\ phase = "drain" /\ events = MaxEventsCamera
    /\ \E w \in World : Begin(app_init(w, Epoch \div DayTicks))

NextCamera ==
    \/ CmdStart("HUD")
    \/ CmdStop("HUD")
    \/ \E n \in Presets : CmdPreset(n, "HUD")
    \/ \E n \in Presets : MidiPreset(n)
    \/ Reconnect
    \/ \E dt \in StepsCamera : Tick(dt, HorizonCamera)

SpecCamera == InitCamera /\ [][NextCamera]_vars

PowerOn(o) == Count(o, <<"power_on">>)
\* a request that wakes a sleeping camera: an accepted start or a preset
WakeTrigger ==
    /\ ~IsTick
    /\ Has(out', <<"start_accepted">>) \/ (\E i \in DOMAIN out' : out'[i][1] = "preset_request")

\* C24: a wake trigger that arrives while the camera is WAKING or AWAKE sends
\* no power-on command and leaves the camera state and the wake-ready
\* deadline unchanged.  A power-on is sent only from SLEEP, once, and takes
\* the camera out of SLEEP, and the camera returns to SLEEP only with a
\* power-off: so at most one power-on is sent between two sleeps.
C24_WakeIdempotent ==
    [][ /\ (WakeTrigger /\ cam_state \in {"WAKING", "AWAKE"}) =>
              /\ PowerOn(out') = 0
              /\ cam_state' = cam_state /\ cam_ready_at' = cam_ready_at
        /\ PowerOn(out') <= 1
        /\ PowerOn(out') = 1 => cam_state = "SLEEP" /\ cam_state' = "WAKING"
        /\ (cam_state # "SLEEP" /\ cam_state' = "SLEEP") => Has(out', <<"power_off">>)
      ]_vars

\* a preset was requested while the camera was booting: queued, no power-on
C24_Witness ==
    /\ cam_state = "WAKING" /\ queued_preset # 0 /\ cam_ready_at > now
    /\ \E i \in DOMAIN out : out[i][1] = "preset_request"
    /\ PowerOn(out) = 0


\* C25: a scheduled preset is sent to the camera only in a loop iteration with
\* now >= its due time and the camera AWAKE; it is sent once and the pending
\* slot is empty afterwards; an iteration with a due preset and the camera
\* AWAKE does send it; and scheduling a preset while the camera is in SLEEP
\* (auto-wake enabled) powers the camera on.
C25_DelayedFiringGuard ==
    [][ /\ \A n \in Presets :
             /\ DelayedRecall(out', n) =>
                  /\ IsTick /\ n = pending_preset
                  /\ now >= pending_preset_due
                  /\ CameraAwakeInTick
                  /\ DelayedCount(out') = 1
                  /\ pending_preset' = 0 /\ pending_preset_due' = 0
             /\ (Scheduled(out', n) /\ cam_state = "SLEEP"
                     /\ cfg.CAMERA_AUTO_WAKE_ON_PRESET) =>
                  /\ PowerOn(out') = 1 /\ cam_state' = "WAKING"
                  /\ pending_preset' = n
        /\ (IsTick /\ pending_preset # 0 /\ now >= pending_preset_due
                   /\ CameraAwakeInTick) =>
              DelayedRecall(out', pending_preset)
      ]_vars

\* a preset scheduled with the camera asleep has just been recalled, on the
\* iteration where the camera became ready, after its due time
C25_Witness ==
    /\ DelayedRecall(out, 2) /\ Has(out, <<"cam_awake">>)
    /\ pending_preset = 0 /\ cam_state = "AWAKE"
    /\ now > Epoch + Sec(clamped_preset_delay(2))


(***************************************************************************)
(* Automation presets alone, one with a delay and one without.             *)
(***************************************************************************)
HorizonAutomation == 12
MaxEventsAutomation == 4
StepsAutomation == {1, 2}

InitAutomation ==
    /\ cfg = MainCfg
    /\ now = Epoch /\ started_at = Epoch
    /\ cmd_queue = <<>> /\ ui_pc = "idle"
    /\ se_pc = "idle" /\ se_deadline = 0 /\ se_wake = 0
    /\ phase = "drain" /\ events = MaxEventsAutomation
    /\ \E w \in World : Begin(app_init(w, Epoch \div DayTicks))

NextAutomation ==
    \/ \E n \in Presets : MidiPreset(n)
    \/ Reconnect
    \/ \E dt \in StepsAutomation : Tick(dt, HorizonAutomation)

SpecAutomation == InitAutomation /\ [][NextAutomation]_vars

AutomationPreset(o, n) == Has(o, <<"preset_request", n, "MIDI">>)

\* C26: at most one outstanding preset.  While a delayed preset A is pending,
\* an automation request for a different preset B (with a positive delay,
\* with no delay, or queued for the camera wake) cancels A, so that A is not
\* pending afterwards; a request for A itself recalls nothing and leaves A
\* pending; and no iteration recalls more than one delayed preset.
C26_OneOutstanding ==
    [][ /\ \A n \in Presets : AutomationPreset(out', n) =>
             /\ pending_preset \notin {0, n} =>
                  /\ Has(out', <<"cancelled_preset", pending_preset>>)
                  /\ pending_preset' # pending_preset
             /\ pending_preset = n =>
                  /\ RecallCount(out') = 0 /\ pending_preset' = n
        /\ DelayedCount(out') <= 1
      ]_vars


ObservedLive == IsTick /\ ~was_streaming /\ was_streaming'

\* C27: whenever recovery goes from inactive to active (armed by an
\* unexpected stop, by the maintain-live path, or after a cooldown hold has
\* expired) its attempt counter starts from 0: after the iteration it counts
\* the recovery start calls of that iteration, and the new cycle is not
\* paused in it.  Whenever the observed live status becomes true the attempt
\* counter is 0 and recovery is inactive.
C27_RecoveryReset ==
    [][ /\ (~recovering /\ recovering') =>
              /\ IsTick
              /\ recover_attempts' = Count(out', <<"start_stream", "RECOVER">>)
              /\ recover_attempts' <= 1
        /\ (IsTick /\ ~recovering) => ~RecoverPaused
        /\ ObservedLive =>
              /\ recover_attempts' = 0 /\ ~recovering'
              /\ Has(out', <<"stream_started">>)
      ]_vars

\* a new cycle has begun after a cooldown hold expired, counting from 0
C27_Witness ==
    /\ recovering /\ recover_attempts = 1
    /\ Has(out, <<"start_stream", "RECOVER">>)
    /\ recover_hold_until > 0 /\ now >= recover_hold_until
    /\ last_critical_msg = "Auto-recover paused (max attempts reached)"

\* the stream came back during a recovery cycle: counter 0, inactive
C27_WitnessLive ==
    /\ Has(out, <<"stream_started">>) /\ was_streaming
    /\ recover_attempts = 0 /\ ~recovering /\ h_last_accept > 0


\* C28 as stated: the recovery policy makes a backend start call in a loop
\* iteration only if, in that iteration, desired_streaming is true, the
\* observed status is not live, now >= recover_hold_until, now >=
\* start_grace_until, now >= recover_next_at, fewer than the maximum attempts
\* have been made and the backend is connected; an iteration with the
\* backend disconnected leaves the attempt counter unchanged.
C28_RecoveryGuard ==
    [][ /\ RecoverCall =>
              /\ IsTick /\ desired_streaming' /\ ~was_streaming'
              /\ now >= recover_hold_until' /\ now >= start_grace_until'
              /\ recovering => now >= recover_next_at
              /\ recover_attempts' <= cfg.AUTO_RECOVER_MAX_ATTEMPTS
              /\ recovering => recover_attempts < cfg.AUTO_RECOVER_MAX_ATTEMPTS
              /\ obs_connected
              /\ Count(out', <<"start_stream", "RECOVER">>) = 1
        /\ (IsTick /\ ~obs_connected) =>
              /\ ~RecoverCall
              /\ recover_attempts' = recover_attempts
      ]_vars

\* C28 amended: as above, but an iteration with the backend disconnected does
\* not count as an attempt: the counter does not go up (it is reset to 0
\* when a new recovery cycle begins in that iteration), and an attempt that
\* was otherwise due is put off by 3 s.
C28_RecoveryGuardNoCount ==
    [][ /\ RecoverCall =>
              /\ IsTick /\ desired_streaming' /\ ~was_streaming'
              /\ now >= recover_hold_until' /\ now >= start_grace_until'
              /\ recovering => now >= recover_next_at
              /\ recover_attempts' <= cfg.AUTO_RECOVER_MAX_ATTEMPTS
              /\ recovering => recover_attempts < cfg.AUTO_RECOVER_MAX_ATTEMPTS
              /\ obs_connected
              /\ Count(out', <<"start_stream", "RECOVER">>) = 1
        /\ (IsTick /\ ~obs_connected) =>
              /\ ~RecoverCall
              /\ recover_attempts' \in {recover_attempts, 0}
              /\ recover_attempts' # recover_attempts => (~recovering /\ recovering')
              /\ (recovering' /\ desired_streaming' /\ now >= recover_next_at
                     /\ now >= recover_hold_until' /\ now >= start_grace_until'
                     /\ recover_attempts' < cfg.AUTO_RECOVER_MAX_ATTEMPTS) =>
                   recover_next_at' = now + Sec(3)
      ]_vars

\* a recovery start call has just been made after the start grace ran out
C28_Witness ==
    /\ Has(out, <<"start_stream", "RECOVER">>) /\ desired_streaming /\ ~was_streaming
    /\ start_grace_until > 0 /\ now >= start_grace_until
    /\ recover_attempts = 2

\* backend disconnected during a cycle: waiting, the count kept
C28_WitnessOffline ==
    /\ ~obs_connected /\ recovering /\ recover_attempts = 1
    /\ Has(out, <<"tick">>) /\ recover_next_at = now - Sec(10) + Sec(3)


\* the part of an iteration an outward call or log entry belongs to, in the
\* order of C29: 1 due stop, 2 camera ready, 3 delayed preset, 4 recovery,
\* 5 scheduled start (0: not tied to one part)
Stage(e) ==
    CASE e[1] \in {"stop_deadline", "stop_stream", "power_off"} -> 1
      [] e[1] = "cam_awake" -> 2
      [] e[1] = "recall_preset" -> (IF e[3] = "DELAY" THEN 3 ELSE 2)
      [] e = <<"start_stream", "RECOVER">> -> 4
      [] e[1] \in {"recover_paused", "recovery_armed"} -> 4
      [] e[1] \in {"timer_start", "timer_saved"} -> 5
      [] OTHER -> 0

\* C29: within one loop iteration the due stop (backend stop call and camera
\* sleep) comes first, then the camera wake-ready transition with its queued
\* preset and deferred start, then a due delayed preset, then the recovery
\* policy, then the scheduled start; when a stop is due in the iteration in
\* which the camera becomes ready, no deferred start and no queued preset is
\* flushed before the stop and the camera sleep.
C29_TickOrdering ==
    [][ IsTick =>
          /\ \A i, j \in DOMAIN out' :
                (i < j /\ Stage(out'[i]) # 0 /\ Stage(out'[j]) # 0) =>
                    Stage(out'[i]) <= Stage(out'[j])
          /\ \A i, j \in DOMAIN out' :
                (i < j /\ out'[j] = <<"stop_deadline">>) =>
                    out'[i][1] \notin {"start_accepted", "start_stream", "recall_preset"}
      ]_vars


(***************************************************************************)
(* The stop intent over its 120 s life: default settings, 10 s iterations. *)
(***************************************************************************)
HorizonIntent == 200
MaxEventsIntent == 3
StepsIntent == {Sec(10)}

WorldIntent == [obs_up : {TRUE}, obs_streaming : BOOLEAN, obs_recording : {FALSE},
                obs_profile_ok : {TRUE}, timer_file : {NoRecord}]

InitIntent ==
    /\ cfg = RecoveryCfg
    /\ now = Epoch /\ started_at = Epoch
    /\ cmd_queue = <<>> /\ ui_pc = "idle"
    /\ se_pc = "idle" /\ se_deadline = 0 /\ se_wake = 0
    /\ phase = "drain" /\ events = MaxEventsIntent
    /\ \E w \in WorldIntent : Begin(app_init(w, Epoch \div DayTicks))

NextIntent ==
    \/ CmdStart("HUD")
    \/ CmdStop("HUD")
    \/ Reconnect
    \/ \E dt \in StepsIntent : Tick(dt, Sec(HorizonIntent))
    \/ EnvStream

SpecIntent == InitIntent /\ [][NextIntent]_vars

\* C30: the stop intent is set only by a stop request; it is cleared by the
\* first observed live-to-not-live transition after it was set, by an
\* accepted start request, or by the first loop iteration more than 120 s
\* after it was set, and by nothing else; once it is cleared or expired a
\* live-to-not-live transition is classified as unexpected.
C30_StopIntentBounded ==
    [][ /\ (~stop_intent /\ stop_intent') =>
              /\ Has(out', <<"stop_requested">>) /\ stop_intent_set_at' = now
        /\ (stop_intent /\ ~stop_intent') =>
              \/ Has(out', <<"requested_stop">>)
              \/ Has(out', <<"start_accepted">>)
              \/ IsTick /\ StopIntentExpired
        /\ (IsTick /\ stop_intent /\ StopIntentExpired) => ~stop_intent'
        /\ (IsTick /\ stop_intent /\ ~StopIntentExpired) =>
              \/ stop_intent' /\ ~StreamWentDown
              \/ ~stop_intent' /\ Has(out', <<"start_accepted">>)
              \/ ~stop_intent' /\ StreamWentDown /\ Has(out', <<"requested_stop">>)
        /\ Has(out', <<"start_accepted">>) => ~stop_intent'
        /\ (StreamWentDown /\ (~stop_intent \/ StopIntentExpired)) =>
              /\ Has(out', <<"unexpected_stop">>)
              /\ last_critical_msg' = "Stream stopped unexpectedly"
      ]_vars

\* a stop intent expired unused, and a later drop was classified unexpected
C30_Witness ==
    /\ Has(out, <<"unexpected_stop">>) /\ ~stop_intent
    /\ stop_intent_set_at > 0 /\ now - stop_intent_set_at > Sec(120)
    /\ h_last_req = "stop"

(***************************************************************************)
(* The service-end sequence.  run_service_end_sequence is a task of the    *)
(* same event loop as App.loop: it runs while the loop is suspended in its *)
(* asyncio.sleep, from the await it stopped at to its next await.  The     *)
(* copies of logs and recordings are left out; closing the OBS process     *)
(* ends its outputs.  Default settings with the two enabling flags chosen  *)
(* at launch, loop iterations 10 s apart.                                  *)
(***************************************************************************)
ServiceEndCfg(enabled, midi_full) ==
    [RecoveryCfg EXCEPT !.SERVICE_END_SEQUENCE_ENABLED = enabled,
                        !.MIDI_STOP_TRIGGERS_FULL_SEQUENCE = midi_full]

HorizonServiceEnd == 420
MaxEventsServiceEnd == 2
StepsServiceEnd == {Sec(10)}

\* close_process(SERVICE_END_OBS_PROCESS_NAME): OBS is terminated
close_obs(s) ==
    Emit([s EXCEPT !.obs_up = FALSE, !.obs_streaming = FALSE, !.obs_recording = FALSE],
         <<"close_obs">>)

\* the end of the sequence: the app closes, the shutdown, the finally clause
service_end_finish(s) ==
    LET a == IF cfg.SERVICE_END_CLOSE_OBS THEN close_obs(s) ELSE s
        b == IF cfg.SERVICE_END_WINDOWS_SHUTDOWN THEN Emit(a, <<"shutdown">>) ELSE a
    IN  [(IF cfg.HOME_TEST_MODE THEN s ELSE b) EXCEPT !.service_end_running = FALSE]

ServiceEndClose(s) ==
    /\ Commit(service_end_finish(s))
    /\ se_pc' = "idle" /\ se_deadline' = 0 /\ se_wake' = 0

\* after the wait loop: the cooldown sleep, if any
ServiceEndCooldown(s) ==
    IF cfg.SERVICE_END_POST_STOP_WAIT_SECONDS > 0
    THEN /\ Commit(Emit(s, <<"service_end_cooldown">>))
         /\ se_pc' = "cooldown" /\ se_deadline' = 0
         /\ se_wake' = now + Sec(cfg.SERVICE_END_POST_STOP_WAIT_SECONDS)
    ELSE ServiceEndClose(s)

\* while time.time() < deadline: one pass of the wait loop
ServiceEndPoll(s, deadline) ==
    IF now < deadline
    THEN LET a == obs_get_status(s)
         IN  IF ~status_streaming(a) /\ ~status_recording(a)
             THEN ServiceEndCooldown(a)
             ELSE /\ Commit(Emit(a, <<"service_end_waiting">>))
                  /\ se_pc' = "wait" /\ se_deadline' = deadline
                  /\ se_wake' = now + Sec(1)
    ELSE ServiceEndCooldown(s)

TaskFrame == UNCHANGED <<cfg, started_at, cmd_queue, ui_pc, now, phase, events>>

\* the task created by _stop_tick runs for the first time
ServiceEndStart ==
    /\ phase = "drain" /\ service_end_running /\ se_pc = "idle"
    /\ ServiceEndPoll(Emit(S, <<"service_end_sequence">>), now + Sec(300))
    /\ TaskFrame

\* await asyncio.sleep(1.0) of the wait loop returns
ServiceEndWait ==
    /\ phase = "drain" /\ se_pc = "wait" /\ now >= se_wake
    /\ ServiceEndPoll(S, se_deadline)
    /\ TaskFrame

\* await asyncio.sleep(wait_s) returns
ServiceEndWake ==
    /\ phase = "drain" /\ se_pc = "cooldown" /\ now >= se_wake
    /\ ServiceEndClose(S)
    /\ TaskFrame

\* the task is ready to run: it runs before the loop's sleep returns
ServiceEndReady ==
    \/ service_end_running /\ se_pc = "idle"
    \/ se_pc \in {"wait", "cooldown"} /\ now >= se_wake

WorldServiceEnd == [obs_up : {TRUE}, obs_streaming : BOOLEAN, obs_recording : BOOLEAN,
                    obs_profile_ok : {TRUE}, timer_file : {NoRecord}]

InitServiceEnd ==
    /\ cfg \in {ServiceEndCfg(TRUE, TRUE), ServiceEndCfg(TRUE, FALSE),
                ServiceEndCfg(FALSE, TRUE)}
    /\ now = Epoch /\ started_at = Epoch
    /\ cmd_queue = <<>> /\ ui_pc = "idle"
    /\ se_pc = "idle" /\ se_deadline = 0 /\ se_wake = 0
    /\ phase = "drain" /\ events = MaxEventsServiceEnd
    /\ \E w \in WorldServiceEnd : Begin(app_init(w, Epoch \div DayTicks))

NextServiceEnd ==
    \/ ServiceEndStart
    \/ ServiceEndWait
    \/ ServiceEndWake
    \/ ~ServiceEndReady /\ CmdStart("HUD")
    \/ ~ServiceEndReady /\ CmdStop("HUD")
    \/ ~ServiceEndReady /\ Reconnect
    \/ MidiStop
    \/ \E dt \in StepsServiceEnd : Tick(dt, Sec(HorizonServiceEnd))
    \/ EnvStream

SpecServiceEnd == InitServiceEnd /\ [][NextServiceEnd]_vars

Launched == Has(out', <<"service_end_started">>)

\* C31: the service-end sequence is launched only by a loop iteration that
\* reaches a stop deadline, only if both enabling flags are set and the most
\* recent stop request came from MIDI (the gate flag is set by a MIDI stop
\* request and by nothing else, and a HUD/WEB stop request clears it), and
\* only while no sequence is running, so that at most one sequence runs at
\* any time; the gate flag is cleared at every stop deadline.
C31_ServiceEndGate ==
    [][ /\ Launched =>
              /\ IsTick /\ Has(out', <<"stop_deadline">>)
              /\ cfg.SERVICE_END_SEQUENCE_ENABLED
              /\ cfg.MIDI_STOP_TRIGGERS_FULL_SEQUENCE
              /\ last_stop_was_midi
              /\ ~service_end_running /\ se_pc = "idle"
              /\ service_end_running'
        /\ (\E src \in {"HUD", "WEB"} : CmdStop(src)) => ~last_stop_was_midi'
        /\ MidiStop => last_stop_was_midi'
        /\ (~last_stop_was_midi /\ last_stop_was_midi') => MidiStop
        /\ Has(out', <<"stop_deadline">>) => ~last_stop_was_midi'
        /\ se_pc' # "idle" => service_end_running'
      ]_vars

\* a sequence was launched at the deadline of a MIDI stop
C31_Witness ==
    /\ Has(out, <<"service_end_started">>) /\ Has(out, <<"stop_deadline">>)
    /\ service_end_running /\ ~last_stop_was_midi

\* a later stop deadline passed while the sequence was still running
C31_WitnessRunning ==
    /\ Has(out, <<"stop_deadline">>) /\ ~Has(out, <<"service_end_started">>)
    /\ se_pc # "idle" /\ cfg = ServiceEndCfg(TRUE, TRUE)

SleepAtDeadline == IsTick /\ Has(out', <<"stop_deadline">>)

\* C32: the loop iteration that reaches the stop deadline puts the camera in
\* SLEEP, sends one power-off command and clears both the preset queued for
\* the wake and the pending delayed preset (the latter with a cancellation
\* note unless it was recalled earlier in the iteration); nothing is recalled
\* after the power-off in that iteration, and a later queue flush or delayed
\* recall sends only the preset that is queued or pending at that time, so a
\* preset requested before the sleep is not sent after it.
C32_SleepClearsPresets ==
    [][ /\ SleepAtDeadline =>
              /\ cam_state' = "SLEEP"
              /\ Count(out', <<"power_off">>) = 1
              /\ queued_preset' = 0 /\ pending_preset' = 0
              /\ (pending_preset # 0 /\ ~DelayedRecall(out', pending_preset)) =>
                     Has(out', <<"cancelled_preset", pending_preset>>)
              /\ \A i, j \in DOMAIN out' :
                     (i < j /\ out'[i] = <<"power_off">>) => out'[j][1] # "recall_preset"
        /\ \A n \in Presets :
              /\ Has(out', <<"recall_preset", n, "QUEUE">>) => queued_preset = n
              /\ Has(out', <<"recall_preset", n, "DELAY">>) => pending_preset = n
      ]_vars

\* the stop deadline put the camera to sleep and cancelled a pending preset
C32_Witness ==
    /\ Has(out, <<"stop_deadline">>) /\ Has(out, <<"power_off">>)
    /\ \E n \in Presets : Has(out, <<"cancelled_preset", n>>)
    /\ cam_state = "SLEEP" /\ pending_preset = 0 /\ queued_preset = 0

\* C33: the backend stop call and the camera power-off of a stop deadline
\* are issued only when desired_streaming is false, and an accepted start
\* request cancels a pending stop.
C33_StartCancelsStop ==
    [][ /\ (IsTick /\ (Has(out', <<"stop_stream">>) \/ Has(out', <<"power_off">>))) =>
              ~desired_streaming
        /\ (~IsTick /\ Has(out', <<"start_accepted">>)) => ~stop_pending'
      ]_vars

\* C34: once a stop request has been accepted and no start request has
\* followed it, no loop iteration issues a backend start call and none
\* accepts a deferred start; the stop request cancels the deferred start.
C34_StopCancelsDeferredStart ==
    [][ /\ (IsTick /\ h_last_req = "stop") =>
              StartCalls(out') = 0 /\ ~Has(out', <<"start_accepted">>)
        /\ (~IsTick /\ Has(out', <<"stop_requested">>)) => ~pending_stream_start'
      ]_vars

\* the camera state at the moment the i-th call of a step is made
CamAt(o, i) ==
    LET before == {j \in 1..(i - 1) : o[j] \in {<<"cam_awake">>, <<"power_off">>, <<"power_on">>}}
    IN  IF before = {} THEN cam_state
        ELSE LET last == CHOOSE j \in before : \A k \in before : k <= j
             IN  CASE o[last] = <<"cam_awake">> -> "AWAKE"
                   [] o[last] = <<"power_off">> -> "SLEEP"
                   [] OTHER -> "WAKING"

\* C35: in church mode (HOME_TEST_MODE off) every backend start call, from a
\* start request, a deferred-start retry or the recovery policy, is made
\* while the camera state is AWAKE.
C35_StartOnlyWhenAwake ==
    [][ ~cfg.HOME_TEST_MODE =>
           \A i \in DOMAIN out' :
               out'[i][1] = "start_stream" => CamAt(out', i) = "AWAKE"
      ]_vars

\* C36: in every reachable state the recovery attempt counter lies between 0
\* and AUTO_RECOVER_MAX_ATTEMPTS, recovery is active only while
\* desired_streaming is true, and recovery is not active while a cooldown
\* hold is in force (now < recover_hold_until).
C36_RecoveryBounds ==
    /\ recover_attempts >= 0
    /\ recover_attempts <= cfg.AUTO_RECOVER_MAX_ATTEMPTS
    /\ recovering => desired_streaming
    /\ recovering => ~(now < recover_hold_until)

\* a cycle has used all its attempts and is still active
C36_Witness ==
    /\ recovering /\ recover_attempts = cfg.AUTO_RECOVER_MAX_ATTEMPTS
    /\ desired_streaming

\* a hold is in force, with recovery inactive
C36_WitnessHold ==
    /\ ~recovering /\ now < recover_hold_until /\ desired_streaming

\* C37: the camera power-off of a stop deadline is sent only on a loop
\* iteration that issued the backend stop call; with the backend disconnected
\* at the deadline the camera is not put to SLEEP.
C37_SleepOnlyAfterStopSent ==
    [][ (IsTick /\ Has(out', <<"stop_deadline">>) /\ ~Has(out', <<"stop_stream">>)) =>
           /\ ~Has(out', <<"power_off">>)
           /\ cam_state # "SLEEP" => cam_state' # "SLEEP"
      ]_vars

(***************************************************************************)
(* Repeated stop requests: the main settings (stop delay 3 s), stop        *)
(* requests from the HUD and from MIDI only.                               *)
(***************************************************************************)
HorizonStops == 14
MaxEventsStops == 3
StepsStops == {1, 2}

WorldStops == [obs_up : BOOLEAN, obs_streaming : BOOLEAN, obs_recording : {FALSE},
               obs_profile_ok : {TRUE}, timer_file : {NoRecord}]

InitStops ==
    /\ cfg = MainCfg
    /\ now = Epoch /\ started_at = Epoch
    /\ cmd_queue = <<>> /\ ui_pc = "idle"
    /\ se_pc = "idle" /\ se_deadline = 0 /\ se_wake = 0
    /\ phase = "drain" /\ events = MaxEventsStops
    /\ \E w \in WorldStops : Begin(app_init(w, Epoch \div DayTicks))

NextStops ==
    \/ CmdStop("HUD")
    \/ MidiStop
    \/ Reconnect
    \/ \E dt \in StepsStops : Tick(dt, HorizonStops)

SpecStops == InitStops /\ [][NextStops]_vars

\* less than a second is left to the deadline (int() of the remainder is 0)
DeadlineReached == stop_pending /\ stop_at - now < Sec(1)

\* C38: a stop request, whether or not a stop is already pending, sets the
\* deadline to now + STOP_DELAY_SECONDS (the latest request wins).  The
\* deadline fires only on a loop iteration, only while a stop is pending and
\* its deadline is reached, and the firing ends the pending stop, with one
\* backend stop call and one camera power-off at most; an iteration that does
\* not fire leaves the pending stop and its deadline alone, and only a stop
\* request makes a stop pending: a run of stop requests with no firing in
\* between is answered by exactly one firing.
C38_LatestStopWins ==
    [][ /\ Has(out', <<"stop_requested">>) =>
              stop_pending' /\ stop_at' = now + Sec(cfg.STOP_DELAY_SECONDS)
        /\ Has(out', <<"stop_deadline">>) =>
              /\ IsTick /\ DeadlineReached /\ ~stop_pending'
              /\ Count(out', <<"stop_deadline">>) = 1
              /\ Count(out', <<"stop_stream">>) <= 1
              /\ Count(out', <<"power_off">>) <= 1
        /\ (IsTick /\ DeadlineReached) => Has(out', <<"stop_deadline">>)
        /\ (IsTick /\ ~DeadlineReached) =>
              stop_pending' = stop_pending /\ stop_at' = stop_at
        /\ (~stop_pending /\ stop_pending') => Has(out', <<"stop_requested">>)
      ]_vars

\* two stop requests, the second before the first one's deadline, and the
\* one firing that answers them
C38_Witness ==
    /\ Has(out, <<"stop_deadline">>) /\ ~stop_pending
    /\ events = MaxEventsStops - 2
    /\ now - started_at < 2 * Sec(cfg.STOP_DELAY_SECONDS) - Sec(2)
    /\ stop_at > started_at + Sec(cfg.STOP_DELAY_SECONDS)

\* C39: the service-end sequence closes the OBS process, or initiates the
\* shutdown, only in a state where OBS reports neither streaming nor
\* recording.
C39_CloseOnlyWhenStopped ==
    [][ (Has(out', <<"close_obs">>) \/ Has(out', <<"shutdown">>)) =>
           ~(obs_up /\ obs_streaming) /\ ~(obs_up /\ obs_recording)
      ]_vars

(***************************************************************************)
(* Recovery without a time bound.  Every test of a timestamp in the code   *)
(* compares it with the current time, so here the clock is the origin: an  *)
(* iteration leaves `now` where it is and moves every stored timestamp     *)
(* back by the time that has passed; a timestamp further back than         *)
(* PastSeconds (longer than any interval the code measures: the 300 s      *)
(* cooldown, the 120 s stop intent) stays there.  The weekly timer is off  *)
(* (RecoveryCfg), so the calendar date is not read.  The loop runs for     *)
(* ever: asyncio.sleep always returns and the commands to drain are finitely *)
(* many, which is the fairness of the step that ends each part of an       *)
(* iteration (Reconnect and TickLive, each enabled whenever the loop is at *)
(* its position).                                                          *)
(***************************************************************************)
PastSeconds == 400
MaxEventsLive == 2
StepsLive == {Sec(10)}

Rebase(t, dt) == IF t = 0 THEN 0 ELSE Max(t - dt, now - Sec(PastSeconds))

elapse(s, dt) ==
    [s EXCEPT !.cam_ready_at = Rebase(@, dt),
              !.pending_preset_due = Rebase(@, dt),
              !.pending_start_not_before = Rebase(@, dt),
              !.stop_at = Rebase(@, dt),
              !.last_start_request_ts = Rebase(@, dt),
              !.start_grace_until = Rebase(@, dt),
              !.stop_intent_set_at = Rebase(@, dt),
              !.recover_next_at = Rebase(@, dt),
              !.recover_hold_until = Rebase(@, dt),
              !.h_last_accept = Rebase(@, dt)]

\* the rest of the iteration, then asyncio.sleep: dt ticks pass
TickLive(dt) ==
    /\ phase = "midi"
    /\ Commit(elapse(Emit(loop_body(S), <<"tick">>), dt))
    /\ phase' = "drain" /\ UNCHANGED <<now, events>> /\ Frame

WorldLive == [obs_up : BOOLEAN, obs_streaming : BOOLEAN, obs_recording : {FALSE},
              obs_profile_ok : {TRUE}, timer_file : {NoRecord}]

InitLive ==
    /\ cfg = RecoveryCfg
    /\ now = Epoch /\ started_at = Epoch
    /\ cmd_queue = <<>> /\ ui_pc = "idle"
    /\ se_pc = "idle" /\ se_deadline = 0 /\ se_wake = 0
    /\ phase = "drain" /\ events = MaxEventsLive
    /\ \E w \in WorldLive : Begin(app_init(w, Epoch \div DayTicks))

NextLive ==
    \/ CmdStart("HUD")
    \/ CmdStop("HUD")
    \/ Reconnect
    \/ \E dt \in StepsLive : TickLive(dt)
    \/ EnvObs
    \/ EnvStream

\* the loop goes on from its present position: Reconnect ends the "drain"
\* part of an iteration, the rest of the iteration and the sleep end "midi"
LoopAdvance == phase' = (IF phase = "drain" THEN "midi" ELSE "drain")

SpecLive == InitLive /\ [][NextLive]_vars /\ WF_phase(LoopAdvance)

NotLiveWanted == desired_streaming /\ obs_connected /\ ~was_streaming

\* C40: with the loop running for ever, if from some point on
\* desired_streaming stays true, the backend stays connected and the observed
\* status stays not-live, then recovery start calls are made infinitely
\* often, and so are the pauses that open a cooldown hold between the cycles;
\* a cycle never has more than AUTO_RECOVER_MAX_ATTEMPTS calls; and whenever
\* the stream is observed live recovery is inactive with 0 attempts.
C40_RecoveryLiveness ==
    /\ (<>[]NotLiveWanted) => []<>Has(out, <<"start_stream", "RECOVER">>)
    /\ (<>[]NotLiveWanted) => []<>Has(out, <<"recover_paused">>)
    /\ [](h_run <= cfg.AUTO_RECOVER_MAX_ATTEMPTS)
    /\ [](was_streaming => ~recovering /\ recover_attempts = 0)

\* a recovery start call of a later cycle: a cooldown hold has been opened
\* and has run out, and the stream is still wanted and not live
C40_Witness ==
    /\ Has(out, <<"start_stream", "RECOVER">>)
    /\ recover_hold_until # 0 /\ recover_hold_until <= now
    /\ NotLiveWanted /\ recovering

====
